---- MODULE Spec2Model ----
(***************************************************************************)
(* Buffer management, splat queues and frame loops of the fluid simulator. *)
(*                                                                         *)
(* Every engine is a record holding the fields of the TypeScript class;    *)
(* every method is an operator from engine record to engine record, and    *)
(* every public method is one action.  A render target is named by a       *)
(* string, and the log of a call lists the passes the call issued, each    *)
(* with the target it rendered into and the textures it sampled.           *)
(***************************************************************************)
EXTENDS Integers, Sequences, FiniteSets, TLC

VARIABLES
  fluidEngine,    \* the FluidEngine instance
  simpleV1,       \* the SimpleFluidEngine of src/src/engine
  fluidSim,       \* the FluidSimulation instance
  simpleEngine,   \* the SimpleFluidEngine of part_007
  oceanEngine,    \* the OceanFluidEngine instance
  canvas,         \* the three canvas components and the engine each owns
  smokeEngine,    \* the SmokeFluidEngine instance
  frameLoop,      \* the clocks of the frame loops and the last update(dt) call
  fluidStore,     \* the brush size of fluidStore and of the component
  constructed,    \* the latest constructor call of each engine class
  freshOcean,     \* a second OceanFluidEngine, constructed anew at every
                  \* reset() of the first and given the same calls since
  simpleGrid,     \* a SimpleFluidEngine of part_007 seen at two texels
  oceanGrid,      \* an OceanFluidEngine seen at the texels of a 3 x 3 grid
  fluidGrid       \* a FluidEngine seen at the texels of a 3 x 3 grid

vars ==
  <<fluidEngine, simpleV1, fluidSim, simpleEngine, oceanEngine, canvas,
    smokeEngine, frameLoop, fluidStore, constructed, freshOcean, simpleGrid,
    oceanGrid, fluidGrid>>

Null == "null"

(***************************************************************************)
(* Bounds of the model.                                                    *)
(***************************************************************************)
\* largest count passed to FluidEngine.addRandomSplats by the control panel
MaxRandomSplats == 2

\* most splats or waves one engine receives between two clears of its queue
\* history
MaxArrivals == 7

\* most splats a FluidSimulation receives
MaxSimSplats == 6

\* most frames the animation loop of one canvas runs
MaxFrames == 3

\* most input and timer callbacks that reach the engine of one canvas
MaxEvents == 2

\* most update calls a SimpleFluidEngine of src/src/engine receives
MaxUpdates == 3

\* largest iteration count passed to FluidSimulation.solvePressure
MaxIterations == 3

\* the delta time the canvas passes to update, 0.016 s
FrameMs == 16

Max(a, b) == IF a >= b THEN a ELSE b

Min(a, b) == IF a <= b THEN a ELSE b

(***************************************************************************)
(* FluidEngine                         src/src/engine/FluidEngine.ts       *)
(***************************************************************************)
\* the nine render targets the constructor allocates
FE_Buffers ==
  {"velocity0", "velocity1", "density0", "density1", "pressure0", "pressure1",
   "divergenceFBO", "vorticityFBO", "displayFBO"}

\* what a target holds: whether every texel is vec4(0.0)
ZeroField == [zero |-> TRUE]

\* sampler uniforms each shader declares
FE_Samplers ==
  [advection        |-> {"uVelocity", "uSource"},
   divergence       |-> {"uVelocity"},
   pressure         |-> {"uPressure", "uDivergence"},
   gradientSubtract |-> {"uVelocity", "uPressure"},
   vorticity        |-> {"uVelocity"},
   splat            |-> {"uTarget"},
   display          |-> {"uDensity"}]

\* uniforms as the shader definitions declare them: every sampler null;
\* uColor is kept as 0 (zero vector) or 1 (non-zero vector)
FE_InitialUniforms ==
  [advection        |-> [uVelocity |-> Null, uSource |-> Null],
   divergence       |-> [uVelocity |-> Null],
   pressure         |-> [uPressure |-> Null, uDivergence |-> Null],
   gradientSubtract |-> [uVelocity |-> Null, uPressure |-> Null],
   vorticity        |-> [uVelocity |-> Null, uCurl |-> 30],
   splat            |-> [uTarget |-> Null, uColor |-> 0],
   display          |-> [uDensity |-> Null]]

\* createShaderPass(...).setUniforms: named uniforms are overwritten, all
\* others keep the value of the previous call
setUniforms(e, pass, u) ==
  [e EXCEPT !.uniforms[pass] =
     [k \in DOMAIN e.uniforms[pass] \cup DOMAIN u |->
        IF k \in DOMAIN u THEN u[k] ELSE e.uniforms[pass][k]]]

\* textures a pass samples when it is rendered: its non-null sampler uniforms
FE_Inputs(e, pass) ==
  {e.uniforms[pass][k] : k \in FE_Samplers[pass]} \ {Null}

\* content of the texture bound to a sampler (a null sampler reads zero)
FE_Sample(e, pass, k) ==
  IF e.uniforms[pass][k] = Null THEN ZeroField
  ELSE e.content[e.uniforms[pass][k]]

\* what the fragment shader of a pass writes, from what it samples
FE_Fragment(e, pass) ==
  CASE pass = "splat" ->
         \* base + splat * uColor
         [zero     |-> FE_Sample(e, pass, "uTarget").zero
                       /\ e.uniforms[pass].uColor = 0]
    [] pass = "advection" ->
         \* texture2D(uSource, coord) * uDissipation
         FE_Sample(e, pass, "uSource")
    [] pass = "vorticity" ->
         \* velocity + force * uDt, force built from uVelocity only
         FE_Sample(e, pass, "uVelocity")
    [] pass = "divergence" ->
         FE_Sample(e, pass, "uVelocity")
    [] pass = "pressure" ->
         \* (pLeft + pRight + pBottom + pTop - divergence) * 0.25
         [zero     |-> FE_Sample(e, pass, "uPressure").zero
                       /\ FE_Sample(e, pass, "uDivergence").zero]
    [] pass = "gradientSubtract" ->
         \* velocity - gradient(uPressure)
         [zero     |-> FE_Sample(e, pass, "uVelocity").zero
                       /\ FE_Sample(e, pass, "uPressure").zero]
    [] pass = "display" ->
         \* clamp((density - 0.5) * uContrast + 0.5) * uBrightness
         FE_Sample(e, pass, "uDensity")

\* createShaderPass(...).render(target): one full-screen pass; the pass is
\* appended to the log of the running call, with the configuration the
\* engine holds at that moment
render(e, pass, target) ==
  [e EXCEPT !.content[target] = FE_Fragment(e, pass),
            !.log = Append(@, [pass   |-> pass,
                               target |-> target,
                               inputs |-> FE_Inputs(e, pass),
                               config |-> e.config])]

\* a pass without samplers that writes vec4(0.0), and renderer.clear()
FE_clearTarget(e, target) ==
  [e EXCEPT !.content[target] = ZeroField,
            !.log = Append(@, [pass |-> "clear", target |-> target,
                               inputs |-> {}, config |-> e.config])]

swapVelocity_aliased(e) ==
  [e EXCEPT !.velocityFBO = [read |-> e.velocityFBO.write,
                             write |-> e.velocityFBO.write]]

swapVelocity(e) ==
  [e EXCEPT !.velocityFBO = [read |-> e.velocityFBO.write,
                             write |-> e.velocityFBO.read]]

swapDensity(e) ==
  [e EXCEPT !.densityFBO = [read |-> e.densityFBO.write,
                            write |-> e.densityFBO.read]]

swapPressure(e) ==
  [e EXCEPT !.pressureFBO = [read |-> e.pressureFBO.write,
                             write |-> e.pressureFBO.read]]

\* FluidEngine.clear(): eight clear passes; displayFBO is not among them
FE_clear(e) ==
  FE_clearTarget(FE_clearTarget(FE_clearTarget(FE_clearTarget(
  FE_clearTarget(FE_clearTarget(FE_clearTarget(FE_clearTarget(e,
    e.velocityFBO.read), e.velocityFBO.write),
    e.densityFBO.read), e.densityFBO.write),
    e.pressureFBO.read), e.pressureFBO.write),
    "divergenceFBO"), "vorticityFBO")

\* FluidEngine.addSplat(x, y, dx, dy, color, radius); dxy and color are 0
\* for a zero vector and 1 otherwise
FE_addSplat(e, dxy, color) ==
  LET e1 == setUniforms(e, "splat",
                        [uTarget |-> e.velocityFBO.read, uColor |-> dxy])
      e2 == swapVelocity(render(e1, "splat", e1.velocityFBO.write))
      e3 == setUniforms(e2, "splat",
                        [uTarget |-> e2.densityFBO.read, uColor |-> color])
  IN  swapDensity(render(e3, "splat", e3.densityFBO.write))

\* FluidEngine.addRandomSplats(count): dxys[i] tells whether the i-th random
\* impulse is the zero vector; setHSL(h, 1, 0.5) is never black
RECURSIVE FE_addRandomSplats(_, _, _)
FE_addRandomSplats(e, count, dxys) ==
  IF count = 0 THEN e
  ELSE FE_addSplat(FE_addRandomSplats(e, count - 1, dxys), dxys[count], 1)

\* number of random splats reset() adds
ResetSplats == 5

\* FluidEngine.reset()
FE_reset(e, dxys) == FE_addRandomSplats(FE_clear(e), ResetSplats, dxys)

FE_updateConfig_dropped(e, vorticity) ==
  [e EXCEPT !.configWritten.vorticity = vorticity]

\* FluidEngine.updateConfig(config): Object.assign(this.config, config); the
\* values of the latest call are remembered in configWritten
FE_updateConfig(e, vorticity) ==
  [e EXCEPT !.config.vorticity = vorticity,
            !.configWritten.vorticity = vorticity]

\* Jacobi iterations per update
JacobiIterations == 20

\* the pressure loop of update
RECURSIVE FE_solvePressure(_, _)
FE_solvePressure(e, i) ==
  IF i = 0 THEN e
  ELSE LET e0 == FE_solvePressure(e, i - 1)
           e1 == setUniforms(e0, "pressure",
                             [uPressure   |-> e0.pressureFBO.read,
                              uDivergence |-> "divergenceFBO"])
       IN  swapPressure(render(e1, "pressure", e1.pressureFBO.write))

vorticityEnabled_always(e) == TRUE

\* if (this.config.vorticity > 0)
vorticityEnabled(e) == e.config.vorticity > 0

\* FluidEngine.update(dt)
FE_update(e) ==
  LET a1 == setUniforms(e, "advection",
                        [uVelocity |-> e.velocityFBO.read,
                         uSource   |-> e.velocityFBO.read])
      a2 == swapVelocity(render(a1, "advection", a1.velocityFBO.write))
      b1 == setUniforms(a2, "advection",
                        [uVelocity |-> a2.velocityFBO.read,
                         uSource   |-> a2.densityFBO.read])
      b2 == swapDensity(render(b1, "advection", b1.densityFBO.write))
      c1 == setUniforms(b2, "vorticity",
                        [uVelocity |-> b2.velocityFBO.read,
                         uCurl     |-> b2.config.vorticity])
      c2 == IF vorticityEnabled(b2)
            THEN swapVelocity(render(c1, "vorticity", c1.velocityFBO.write))
            ELSE b2
      d1 == setUniforms(c2, "divergence",
                        [uVelocity |-> c2.velocityFBO.read])
      d2 == render(d1, "divergence", "divergenceFBO")
      p0 == FE_clearTarget(d2, d2.pressureFBO.read)
      p1 == FE_solvePressure(p0, JacobiIterations)
      g1 == setUniforms(p1, "gradientSubtract",
                        [uVelocity |-> p1.velocityFBO.read,
                         uPressure |-> p1.pressureFBO.read])
      g2 == swapVelocity(render(g1, "gradientSubtract",
                                g1.velocityFBO.write))
      s1 == setUniforms(g2, "display", [uDensity |-> g2.densityFBO.read])
  IN  render(s1, "display", "displayFBO")

\* FluidEngine.getDisplayTexture()
FE_getDisplayTexture(e) == e.content["displayFBO"]

\* the engine the constructor returns: buffers allocated (zero-filled by
\* the device) and cleared
FE_new ==
  FE_clear([velocityFBO |-> [read |-> "velocity0", write |-> "velocity1"],
            densityFBO  |-> [read |-> "density0", write |-> "density1"],
            pressureFBO |-> [read |-> "pressure0", write |-> "pressure1"],
            config      |-> [vorticity |-> 30],
            configWritten |-> [vorticity |-> 30],
            uniforms    |-> FE_InitialUniforms,
            content     |-> [b \in FE_Buffers |-> ZeroField],
            log         |-> <<>>,
            lastCall    |-> "constructor"])

\* a public method starts with an empty pass log
FE_call(e, name) == [e EXCEPT !.log = <<>>, !.lastCall = name]

FE_Idle ==
  UNCHANGED <<simpleV1, fluidSim, simpleEngine, oceanEngine, canvas,
              smokeEngine, frameLoop, fluidStore, constructed, freshOcean,
              simpleGrid, oceanGrid, fluidGrid>>

FE_AddSplat ==
  \E dxy \in {0, 1}, color \in {0, 1} :
    /\ fluidEngine' = FE_addSplat(FE_call(fluidEngine, "addSplat"), dxy, color)
    /\ FE_Idle

FE_AddRandomSplats ==
  \E count \in 1..MaxRandomSplats :
    \E dxys \in [1..count -> {0, 1}] :
      /\ fluidEngine' = FE_addRandomSplats(
                          FE_call(fluidEngine, "addRandomSplats"), count, dxys)
      /\ FE_Idle

FE_Reset ==
  \E dxys \in [1..ResetSplats -> {0, 1}] :
    /\ fluidEngine' = FE_reset(FE_call(fluidEngine, "reset"), dxys)
    /\ FE_Idle

FE_UpdateConfig ==
  \E vorticity \in {0, 30} :
    /\ fluidEngine' = FE_updateConfig(FE_call(fluidEngine, "updateConfig"),
                                      vorticity)
    /\ FE_Idle

FE_Update ==
  /\ fluidEngine' = FE_update(FE_call(fluidEngine, "update"))
  /\ FE_Idle

(***************************************************************************)
(* SimpleFluidEngine                   src/src/engine/SimpleFluidEngine.ts *)
(***************************************************************************)
\* one pass of this engine: renderer.setRenderTarget(target) followed by
\* renderer.render(scene, camera) with a material sampling `input`
V1_render(e, pass, input, target, splat) ==
  [e EXCEPT !.log = Append(@, [pass |-> pass, target |-> target,
                               inputs |-> {input}, splat |-> splat])]

\* Array.prototype.pop: removes the last element and returns it
pop(q) == [value |-> q[Len(q)], rest |-> SubSeq(q, 1, Len(q) - 1)]

\* the splat loop of update: while (this.splats.length > 0) { pop; render
\* into tempRT sampling densityRT; densityRT = tempRT; velocityRT = temp }
RECURSIVE V1_applySplats(_, _)
V1_applySplats(e, tempRT) ==
  IF Len(e.splats) = 0 THEN e
  ELSE LET splat == pop(e.splats).value
           e1    == V1_render([e EXCEPT !.splats = pop(e.splats).rest],
                              "splat", e.densityRT, tempRT, splat)
           temp  == e1.densityRT
       IN  V1_applySplats([e1 EXCEPT !.densityRT = tempRT,
                                     !.velocityRT = temp], tempRT)

\* SimpleFluidEngine.update(dt); the copy pass uses a MeshBasicMaterial made
\* for this call
V1_update(e) ==
  LET tempRT == e.velocityRT
      e1 == V1_render(e, "fade", e.densityRT, tempRT, 0)
      e2 == V1_render([e1 EXCEPT !.copyMaterials = @ + 1],
                      "copy", tempRT, e1.densityRT, 0)
      e3 == V1_applySplats(e2, tempRT)
  IN  V1_render(e3, "display", e3.densityRT, e3.displayRT, 0)

\* SimpleFluidEngine.addSplat(x, y, dx, dy, color): a splat is named by its
\* arrival number
V1_addSplat(e) ==
  [e EXCEPT !.splats = Append(@, e.arrived + 1), !.arrived = @ + 1]

\* SimpleFluidEngine.dispose(): the targets the three fields reference, the
\* quad geometry and the three shader materials
V1_dispose(e) ==
  [e EXCEPT !.allocated = @ \ {e.velocityRT, e.densityRT, e.displayRT,
                               "geometry", "splat", "fade", "display"},
            !.disposed = TRUE]

\* the engine the constructor returns; allocated lists the render targets,
\* the geometry and the shader materials that are not disposed, and
\* copyMaterials counts the undisposed materials update has made
V1_new ==
  [velocityRT |-> "velocityRT", densityRT |-> "densityRT",
   displayRT  |-> "displayRT",
   allocated  |-> {"velocityRT", "densityRT", "displayRT", "geometry",
                   "splat", "fade", "display"},
   copyMaterials |-> 0,
   disposed   |-> FALSE,
   splats     |-> <<>>,
   arrived    |-> 0,
   queuedAtCall |-> 0,
   log        |-> <<>>,
   lastCall   |-> "constructor"]

\* a public method starts with an empty pass log; the queue length at the
\* call is remembered
V1_call(e, name) ==
  [e EXCEPT !.log = <<>>, !.lastCall = name, !.queuedAtCall = Len(e.splats)]

V1_Idle ==
  UNCHANGED <<fluidEngine, fluidSim, simpleEngine, oceanEngine, canvas,
              smokeEngine, frameLoop, fluidStore, constructed, freshOcean,
              simpleGrid, oceanGrid, fluidGrid>>

V1_AddSplat ==
  /\ ~simpleV1.disposed
  /\ simpleV1.arrived < MaxArrivals
  /\ simpleV1' = V1_addSplat(V1_call(simpleV1, "addSplat"))
  /\ V1_Idle

V1_Update ==
  /\ ~simpleV1.disposed
  /\ simpleV1.copyMaterials < MaxUpdates
  /\ simpleV1' = V1_update(V1_call(simpleV1, "update"))
  /\ V1_Idle

V1_Dispose ==
  /\ ~simpleV1.disposed
  /\ simpleV1' = V1_dispose(V1_call(simpleV1, "dispose"))
  /\ V1_Idle

(***************************************************************************)
(* FluidSimulation                     src/unnamed/part_005, lines 107-379 *)
(*                                                                         *)
(* The three target arrays never change; a target holds the set of splats  *)
(* whose contribution reached it.                                          *)
(***************************************************************************)
\* FluidSimulation.renderToTarget, with the kind of target and its index
FS_renderToTarget(e, pass, kind, index, value) ==
  LET e1 == [e EXCEPT !.log = Append(@, [pass |-> pass, kind |-> kind,
                                         target |-> index])]
  IN  CASE kind = "velocity" ->
             [e1 EXCEPT !.velocityRenderTargets[index] = value]
        [] kind = "density" ->
             [e1 EXCEPT !.densityRenderTargets[index] = value,
                        !.densityWritten = index]
        [] kind = "pressure" ->
             [e1 EXCEPT !.pressureRenderTargets[index] = value,
                        !.pressureWritten = index]
        [] kind = "divergence" ->
             [e1 EXCEPT !.divergenceRenderTarget = value]

\* FluidSimulation.advectVelocity(dt)
FS_advectVelocity(e) ==
  LET source == e.velocityRenderTargets[e.currentIndex]
      e1 == FS_renderToTarget(e, "advectVelocity", "velocity",
                              1 - e.currentIndex, source)
  IN  [e1 EXCEPT !.currentIndex = 1 - e.currentIndex]

\* FluidSimulation.advectDensity(dt): source and target are picked by the
\* index advectVelocity has just flipped; the index is not flipped here
FS_advectDensity(e) ==
  LET source == e.densityRenderTargets[e.currentIndex]
      e1 == [e EXCEPT !.advected = [source |-> e.currentIndex,
                                    latest |-> e.densityWritten]]
  IN  FS_renderToTarget(e1, "advectDensity", "density",
                        1 - e.currentIndex, source)

\* FluidSimulation.computeDivergence()
FS_computeDivergence(e) ==
  FS_renderToTarget(e, "computeDivergence", "divergence", 0,
                    e.velocityRenderTargets[e.currentIndex])

\* FluidSimulation.solvePressure(iterations): pressureIndex is a local that
\* starts at 0 in every call
RECURSIVE FS_jacobi(_, _, _)
FS_jacobi(e, pressureIndex, iterations) ==
  IF iterations = 0 THEN e
  ELSE FS_jacobi(
         FS_renderToTarget(e, "solvePressure", "pressure", 1 - pressureIndex,
                           e.pressureRenderTargets[pressureIndex]
                             \cup e.divergenceRenderTarget),
         1 - pressureIndex, iterations - 1)

\* what the first iteration of the loop samples is remembered, and
\* pressureWritten is the index the last iteration wrote, -1 without one
FS_solvePressure(e, iterations) ==
  FS_jacobi([e EXCEPT !.pressureWritten = -1,
                      !.firstJacobi = [ran     |-> iterations > 0,
                                       sampled |-> e.pressureRenderTargets[0]]],
            0, iterations)

\* FluidSimulation.subtractGradient(): samples pressureRenderTargets[0]; the
\* index it samples is remembered with the index solvePressure wrote last
FS_subtractGradient(e) ==
  LET e0 == [e EXCEPT !.gradient = [pressure |-> 0,
                                    latest   |-> e.pressureWritten]]
      e1 == FS_renderToTarget(e0, "subtractGradient", "velocity",
                              1 - e.currentIndex,
                              e.velocityRenderTargets[e.currentIndex]
                                \cup e.pressureRenderTargets[0])
  IN  [e1 EXCEPT !.currentIndex = 1 - e.currentIndex]

\* FluidSimulation.addSplat(x, y, dx, dy, color): a splat is named by its
\* arrival number
FS_addSplat(e) ==
  LET splat == e.arrived + 1
      e1 == FS_renderToTarget(e, "splatVelocity", "velocity",
                              1 - e.currentIndex,
                              e.velocityRenderTargets[e.currentIndex]
                                \cup {splat})
      e2 == FS_renderToTarget(e1, "splatDensity", "density",
                              1 - e.currentIndex,
                              e.densityRenderTargets[e.currentIndex]
                                \cup {splat})
  IN  [e2 EXCEPT !.currentIndex = 1 - e.currentIndex, !.arrived = splat]

\* default iteration count of solvePressure
DefaultIterations == 20

\* FluidSimulation.update(dt)
FS_update(e) ==
  FS_subtractGradient(
    FS_solvePressure(
      FS_computeDivergence(FS_advectDensity(FS_advectVelocity(e))),
      DefaultIterations))

\* FluidSimulation.getDensityTexture()
FS_getDensityTexture(e) == e.densityRenderTargets[e.currentIndex]

\* the simulation the constructor returns: freshly allocated targets
FS_new ==
  [velocityRenderTargets  |-> [i \in 0..1 |-> {}],
   densityRenderTargets   |-> [i \in 0..1 |-> {}],
   pressureRenderTargets  |-> [i \in 0..1 |-> {}],
   divergenceRenderTarget |-> {},
   currentIndex   |-> 0,
   arrived        |-> 0,
   densityWritten |-> -1,
   advected       |-> [source |-> -1, latest |-> -1],
   pressureWritten |-> -1,
   firstJacobi    |-> [ran |-> FALSE, sampled |-> {}],
   gradient       |-> [pressure |-> -1, latest |-> -1],
   log            |-> <<>>,
   lastCall       |-> "constructor"]

FS_call(e, name) == [e EXCEPT !.log = <<>>, !.lastCall = name]

FS_Idle ==
  UNCHANGED <<fluidEngine, simpleV1, simpleEngine, oceanEngine, canvas,
              smokeEngine, frameLoop, fluidStore, constructed, freshOcean,
              simpleGrid, oceanGrid, fluidGrid>>

FS_AddSplat ==
  /\ fluidSim.arrived < MaxSimSplats
  /\ fluidSim' = FS_addSplat(FS_call(fluidSim, "addSplat"))
  /\ FS_Idle

FS_Update ==
  /\ fluidSim' = FS_update(FS_call(fluidSim, "update"))
  /\ FS_Idle

FS_SolvePressure ==
  \E iterations \in 0..MaxIterations :
    /\ fluidSim' = FS_solvePressure(FS_call(fluidSim, "solvePressure"),
                                    iterations)
    /\ FS_Idle

FS_SubtractGradient ==
  /\ fluidSim' = FS_subtractGradient(FS_call(fluidSim, "subtractGradient"))
  /\ FS_Idle

(***************************************************************************)
(* SimpleFluidEngine                   src/unnamed/part_007, lines 704-949 *)
(*                                                                         *)
(* A target holds the sequence of splats applied to it since it was        *)
(* cleared, in the order of application.                                   *)
(***************************************************************************)
\* renderer.setRenderTarget(target); renderer.render(scene, camera)
SE_render(e, pass, inputs, target, value) ==
  [e EXCEPT !.content[target] = value,
            !.log = Append(@, [pass |-> pass, target |-> target,
                               inputs |-> inputs])]

\* SimpleFluidEngine.clear()
SE_clear(e) ==
  [e EXCEPT !.content = [b \in DOMAIN e.content |-> <<>>]]

SE_swapBuffers(e) ==
  [e EXCEPT !.densityBuffers = [read  |-> e.densityBuffers.write,
                                write |-> e.densityBuffers.read]]

\* shift mistaken for pop: the newest element is taken instead of the oldest
shift_asPop(q) == [value |-> q[Len(q)], rest |-> SubSeq(q, 1, Len(q) - 1)]

\* Array.prototype.shift: removes the first element and returns it
shift(q) == [value |-> Head(q), rest |-> Tail(q)]

\* splats applied per update at most
SplatsPerFrame == 5

\* the for loop of update: shift a splat, render it over densityBuffers.read
\* into densityBuffers.write, swap
RECURSIVE SE_applySplats(_, _)
SE_applySplats(e, splatCount) ==
  IF splatCount = 0 THEN e
  ELSE LET splat == shift(e.splats).value
           e1 == [e EXCEPT !.splats = shift(e.splats).rest]
           e2 == SE_render(e1, "splat", {e1.densityBuffers.read},
                           e1.densityBuffers.write,
                           Append(e1.content[e1.densityBuffers.read], splat))
       IN  SE_applySplats(SE_swapBuffers(e2), splatCount - 1)

\* SimpleFluidEngine.update(dt)
SE_update(e) ==
  LET e1 == SE_swapBuffers(
              SE_render(e, "fade", {e.densityBuffers.read},
                        e.densityBuffers.write,
                        e.content[e.densityBuffers.read]))
      e2 == IF Len(e1.splats) > 0
            THEN SE_applySplats(e1, Min(Len(e1.splats), SplatsPerFrame))
            ELSE e1
  IN  SE_render(e2, "display", {e2.densityBuffers.read}, e2.displayRT,
                e2.content[e2.densityBuffers.read])

\* SimpleFluidEngine.addSplat(x, y, dx, dy, color): a splat is named by its
\* arrival number since the last reset
SE_addSplat(e) ==
  [e EXCEPT !.splats = Append(@, e.arrived + 1), !.arrived = @ + 1]

\* SimpleFluidEngine.reset()
SE_reset(e) == [SE_clear(e) EXCEPT !.splats = <<>>, !.arrived = 0]

\* the engine the constructor returns
SE_new ==
  SE_clear([densityBuffers |-> [read |-> "density0", write |-> "density1"],
            displayRT      |-> "displayRT",
            content        |-> [b \in {"density0", "density1", "displayRT"}
                                  |-> <<>>],
            splats         |-> <<>>,
            arrived        |-> 0,
            queuedAtCall   |-> 0,
            log            |-> <<>>,
            lastCall       |-> "constructor"])

SE_call(e, name) ==
  [e EXCEPT !.log = <<>>, !.lastCall = name, !.queuedAtCall = Len(e.splats)]

SE_Idle ==
  UNCHANGED <<fluidEngine, simpleV1, fluidSim, oceanEngine, canvas,
              smokeEngine, frameLoop, fluidStore, constructed, freshOcean,
              simpleGrid, oceanGrid, fluidGrid>>

SE_AddSplat ==
  /\ simpleEngine.arrived < MaxArrivals
  /\ simpleEngine' = SE_addSplat(SE_call(simpleEngine, "addSplat"))
  /\ SE_Idle

SE_Update ==
  /\ simpleEngine' = SE_update(SE_call(simpleEngine, "update"))
  /\ SE_Idle

SE_Reset ==
  /\ simpleEngine' = SE_reset(SE_call(simpleEngine, "reset"))
  /\ SE_Idle

(***************************************************************************)
(* OceanFluidEngine                    src/unnamed/part_006                *)
(*                                                                         *)
(* A target holds the sequence of waves applied to the height field it was *)
(* computed from, in the order of application.                             *)
(***************************************************************************)
\* largest value of OceanFluidEngine.time, in milliseconds
MaxOceanTime == 16

OE_Buffers ==
  {"velocity0", "velocity1", "height0", "height1", "normalBuffer",
   "foamBuffer", "displayRT"}

\* passes of the display stages: normals, foam, the foam copy, the display
OE_DerivedPasses ==
  {"calculateNormals", "calculateFoam", "copyFoam", "oceanDisplay"}

\* materials with a uTime uniform, assigned this.time before the pass
OE_TimedPasses == {"waveUpdate", "calculateFoam", "oceanDisplay"}

\* the time the content of a target depends on: this.time for a material
\* with uTime, else the latest time among the sampled textures (-1: none)
OE_stamp(e, pass, inputs) ==
  IF pass \in OE_TimedPasses THEN e.time
  ELSE CHOOSE s \in {e.stamp[b] : b \in inputs} :
         \A b \in inputs : e.stamp[b] <= s

\* the buffer whose second channel holds the velocity the wave update
\* computed last: waveUpdate writes vec4(height, velocity.x, 0, 1) and
\* waveImpact copies both channels of uTarget into its target
OE_velocityAt(e, pass, inputs, target) ==
  IF pass = "waveUpdate" THEN target
  ELSE IF pass = "waveImpact" /\ e.velocityAt \in inputs THEN target
  ELSE IF target = e.velocityAt THEN Null
  ELSE e.velocityAt

\* renderer.setRenderTarget(target); renderer.render(scene, camera): the
\* pass is appended to the log of the running call, with the buffers the
\* display stages had written and the buffer holding the computed velocity
\* at that moment
OE_render(e, pass, inputs, target, value) ==
  [e EXCEPT !.content[target] = value,
            !.stamp[target] = OE_stamp(e, pass, inputs),
            !.derived = IF pass \in OE_DerivedPasses
                        THEN @ \cup {target} ELSE @,
            !.velocityAt = OE_velocityAt(e, pass, inputs, target),
            !.log = Append(@, [pass |-> pass, target |-> target,
                               inputs   |-> inputs,
                               velocity |-> IF pass = "waveUpdate"
                                            THEN e.velocityBuffers.read
                                            ELSE Null,
                               derived  |-> e.derived,
                               carried  |-> e.velocityAt])]

\* OceanFluidEngine.clear()
OE_clear(e) ==
  [e EXCEPT !.content = [b \in OE_Buffers |-> <<>>],
            !.stamp = [b \in OE_Buffers |-> -1],
            !.velocityAt = Null]

swapHeightBuffers(e) ==
  [e EXCEPT !.heightBuffers = [read  |-> e.heightBuffers.write,
                               write |-> e.heightBuffers.read]]

\* waves applied per update at most
WavesPerFrame == 3

\* the for loop of update
RECURSIVE OE_applyWaves(_, _)
OE_applyWaves(e, wavesToProcess) ==
  IF wavesToProcess = 0 THEN e
  ELSE LET wave == shift(e.waves).value
           e1 == [e EXCEPT !.waves = shift(e.waves).rest]
           e2 == OE_render(e1, "waveImpact", {e1.heightBuffers.read},
                           e1.heightBuffers.write,
                           Append(e1.content[e1.heightBuffers.read], wave))
       IN  OE_applyWaves(swapHeightBuffers(e2), wavesToProcess - 1)

tempFoam_read(e) == e.velocityBuffers.read

\* const tempFoam = this.velocityBuffers.write
tempFoam(e) == e.velocityBuffers.write

\* "Update wave physics"
OE_waveUpdate(e) ==
  swapHeightBuffers(
    OE_render(e, "waveUpdate",
              {e.heightBuffers.read, e.velocityBuffers.read},
              e.heightBuffers.write,
              e.content[e.heightBuffers.read]))

\* "Apply wave impacts"
OE_waveImpacts(e) ==
  IF Len(e.waves) > 0
  THEN OE_applyWaves(e, Min(Len(e.waves), WavesPerFrame))
  ELSE e

\* "Calculate normals"
OE_calculateNormals(e) ==
  OE_render(e, "calculateNormals", {e.heightBuffers.read},
            "normalBuffer", e.content[e.heightBuffers.read])

\* "Calculate foam" and "Copy back to foam buffer"
OE_calculateFoam(e) ==
  LET f == OE_render(e, "calculateFoam",
                     {e.heightBuffers.read, e.velocityBuffers.read,
                      "foamBuffer"},
                     tempFoam(e), e.content[e.heightBuffers.read])
  IN  OE_render(f, "copyFoam", {tempFoam(f)}, "foamBuffer",
                f.content[tempFoam(f)])

\* "Final ocean rendering"
OE_oceanDisplay(e) ==
  OE_render(e, "oceanDisplay",
            {e.heightBuffers.read, "normalBuffer", "foamBuffer"},
            "displayRT", e.content[e.heightBuffers.read])

\* this.time += dt
OE_advanceTime(e, dt) == [e EXCEPT !.time = @ + dt]

\* OceanFluidEngine.update(dt)
OE_update(e, dt) ==
  LET t == OE_advanceTime(e, dt)
      w == OE_waveUpdate(t)
      i == OE_waveImpacts(w)
      n == OE_calculateNormals(i)
      f == OE_calculateFoam(n)
  IN  OE_oceanDisplay(f)

\* OceanFluidEngine.addWave(x, y, strength): a wave is named by its arrival
\* number since the last reset
OE_addWave(e) ==
  [e EXCEPT !.waves = Append(@, e.arrived + 1), !.arrived = @ + 1]

OE_reset_keepsTime(e) == [OE_clear(e) EXCEPT !.waves = <<>>, !.arrived = 0]

\* OceanFluidEngine.reset()
OE_reset(e) ==
  [OE_clear(e) EXCEPT !.waves = <<>>, !.arrived = 0, !.time = 0]

\* the engine the constructor returns
OE_new ==
  OE_clear([velocityBuffers |-> [read |-> "velocity0", write |-> "velocity1"],
            heightBuffers   |-> [read |-> "height0", write |-> "height1"],
            content         |-> [b \in OE_Buffers |-> <<>>],
            stamp           |-> [b \in OE_Buffers |-> -1],
            time            |-> 0,
            derived         |-> {},
            velocityAt      |-> Null,
            waves           |-> <<>>,
            arrived         |-> 0,
            queuedAtCall    |-> 0,
            log             |-> <<>>,
            lastCall        |-> "constructor"])

OE_call(e, name) ==
  [e EXCEPT !.log = <<>>, !.lastCall = name, !.queuedAtCall = Len(e.waves)]

OE_Idle ==
  UNCHANGED <<fluidEngine, simpleV1, fluidSim, simpleEngine, canvas,
              smokeEngine, frameLoop, fluidStore, constructed, simpleGrid,
              oceanGrid, fluidGrid>>

OE_AddWave ==
  /\ oceanEngine.arrived < MaxArrivals
  /\ oceanEngine' = OE_addWave(OE_call(oceanEngine, "addWave"))
  /\ freshOcean' = OE_addWave(OE_call(freshOcean, "addWave"))
  /\ OE_Idle

OE_Update ==
  \E dt \in {0, FrameMs} :
    /\ oceanEngine.time + dt <= MaxOceanTime
    /\ oceanEngine' = OE_update(OE_call(oceanEngine, "update"), dt)
    /\ freshOcean' = OE_update(OE_call(freshOcean, "update"), dt)
    /\ OE_Idle

OE_Reset ==
  /\ oceanEngine' = OE_reset(OE_call(oceanEngine, "reset"))
  /\ freshOcean' = OE_new
  /\ OE_Idle

(***************************************************************************)
(* SmokeCanvas, FluidCanvas            src/src/components/SmokeCanvas.tsx  *)
(* OceanCanvas                         src/unnamed/part_002                *)
(*                                                                         *)
(* Each component is one useEffect: the body creates the engine, registers *)
(* the listeners and starts the animation loop, the returned cleanup       *)
(* removes the listeners and disposes the engine.  The engine is kept as   *)
(* the calls it received.                                                  *)
(***************************************************************************)
Canvases == {"SmokeCanvas", "OceanCanvas", "FluidCanvas"}

\* setTimeout callbacks the effect body schedules (FluidCanvas: the three
\* initial splats)
CV_InitialTimeouts(c) == IF c = "FluidCanvas" THEN 3 ELSE 0

\* whether the effect body starts a setInterval (OceanCanvas: ambient waves)
CV_HasInterval(c) == c = "OceanCanvas"

\* addWave calls the effect body makes itself (OceanCanvas: the initial
\* createAmbientWaves())
CV_InitialEvents(c) == IF c = "OceanCanvas" THEN 1 ELSE 0

\* animate(): requestAnimationFrame(animate) first, then engine.update(0.016)
CV_animate(v) ==
  [v EXCEPT !.rafPending = TRUE, !.updateCalls = @ + 1]

\* a callback that calls addSplat / addWave / addCustomSmoke on the engine
CV_event(v) == [v EXCEPT !.eventCalls = @ + 1]

\* the body of the effect
CV_mount(v, c) ==
  CV_animate([v EXCEPT !.phase = "mounted",
                       !.listeners = TRUE,
                       !.timeouts = CV_InitialTimeouts(c),
                       !.interval = CV_HasInterval(c),
                       !.eventCalls = CV_InitialEvents(c)])

\* the cleanup the effect returns: clearInterval (OceanCanvas),
\* removeEventListener for every listener, engine.dispose(); the pending
\* animation frame and the pending timeouts are left alone
CV_cleanup(v) ==
  [v EXCEPT !.phase = "cleaned",
            !.listeners = FALSE,
            !.interval = FALSE,
            !.disposed = TRUE]

CV_new ==
  [phase |-> "unmounted", listeners |-> FALSE, rafPending |-> FALSE,
   timeouts |-> 0, interval |-> FALSE, disposed |-> FALSE,
   updateCalls |-> 0, eventCalls |-> 0]

CV_Idle ==
  UNCHANGED <<fluidEngine, simpleV1, fluidSim, simpleEngine, oceanEngine,
              smokeEngine, frameLoop, fluidStore, constructed, freshOcean,
              simpleGrid, oceanGrid, fluidGrid>>

\* React runs the effect when the component mounts
CV_Mount ==
  \E c \in Canvases :
    /\ canvas[c].phase = "unmounted"
    /\ canvas' = [canvas EXCEPT ![c] = CV_mount(@, c)]
    /\ CV_Idle

\* the browser runs the requested animation frame
CV_AnimationFrame ==
  \E c \in Canvases :
    /\ canvas[c].rafPending
    /\ canvas[c].updateCalls < MaxFrames
    /\ canvas' = [canvas EXCEPT ![c] = CV_animate(@)]
    /\ CV_Idle

\* a mouse, touch or key event reaches a registered listener
CV_InputEvent ==
  \E c \in Canvases :
    /\ canvas[c].listeners
    /\ canvas[c].eventCalls < MaxEvents
    /\ canvas' = [canvas EXCEPT ![c] = CV_event(@)]
    /\ CV_Idle

\* a pending setTimeout callback runs
CV_Timeout ==
  \E c \in Canvases :
    /\ canvas[c].timeouts > 0
    /\ canvas[c].eventCalls < MaxEvents
    /\ canvas' = [canvas EXCEPT ![c] = CV_event([@ EXCEPT !.timeouts = @ - 1])]
    /\ CV_Idle

\* the setInterval callback runs
CV_Interval ==
  \E c \in Canvases :
    /\ canvas[c].interval
    /\ canvas[c].eventCalls < MaxEvents
    /\ canvas' = [canvas EXCEPT ![c] = CV_event(@)]
    /\ CV_Idle

\* React runs the cleanup when the component unmounts
CV_Cleanup ==
  \E c \in Canvases :
    /\ canvas[c].phase = "mounted"
    /\ canvas' = [canvas EXCEPT ![c] = CV_cleanup(@)]
    /\ CV_Idle

(***************************************************************************)
(* SmokeFluidEngine                     src/unnamed/part_007, lines 12-657 *)
(*                                                                         *)
(* A target holds whether its data channels are zero everywhere.  A field  *)
(* of a source holds the name of the quantity it was constructed from; the *)
(* color of a source is a Vector3 object that the uColor uniform of the    *)
(* addSource material may reference.  Times are in milliseconds.           *)
(***************************************************************************)
\* latest simulated time of the smoke engine
MaxSmokeTime == 32

\* most sources addCustomSmoke adds
MaxCustomSmoke == 2

\* the eleven render targets the constructor allocates
SM_Buffers ==
  {"velocity0", "velocity1", "density0", "density1", "temperature0",
   "temperature1", "pressure0", "pressure1", "divergenceBuffer",
   "vorticityBuffer", "displayBuffer"}

\* sampler uniforms each material declares
SM_Samplers ==
  [advection        |-> {"uVelocity", "uSource"},
   buoyancy         |-> {"uVelocity", "uTemperature", "uDensity"},
   divergence       |-> {"uVelocity"},
   pressure         |-> {"uPressure", "uDivergence"},
   gradientSubtract |-> {"uVelocity", "uPressure"},
   vorticity        |-> {"uVelocity", "uCurl"},
   curl             |-> {"uVelocity"},
   addSource        |-> {"uTarget"},
   display          |-> {"uDensity"}]

\* uniforms as the materials declare them; uColor holds the id of the source
\* whose color object it references, 0 for the material's own Vector3;
\* uIntensity and uDt are 0 for zero and 1 otherwise
SM_InitialUniforms ==
  [advection        |-> [uVelocity |-> Null, uSource |-> Null, uDt |-> 1],
   buoyancy         |-> [uVelocity |-> Null, uTemperature |-> Null,
                         uDensity |-> Null, uDt |-> 1],
   divergence       |-> [uVelocity |-> Null],
   pressure         |-> [uPressure |-> Null, uDivergence |-> Null],
   gradientSubtract |-> [uVelocity |-> Null, uPressure |-> Null],
   vorticity        |-> [uVelocity |-> Null, uCurl |-> Null, uDt |-> 1],
   curl             |-> [uVelocity |-> Null],
   addSource        |-> [uTarget |-> Null, uColor |-> 0, uIntensity |-> 1],
   display          |-> [uDensity |-> Null]]

\* a source as the constructor and addCustomSmoke build it
SM_source(id) ==
  [id |-> id, position |-> "position", velocity |-> "velocity",
   color |-> "color", temperature |-> "temperature", density |-> "density",
   radius |-> "radius"]

\* number of sources the constructor creates
InitialSources == 3

\* value of the Vector3 the uColor uniform references
SM_uColor(e) ==
  LET ref == e.uniforms.addSource.uColor
      held == {e.smokeSources[i].color :
                 i \in {j \in DOMAIN e.smokeSources :
                          e.smokeSources[j].id = ref}}
  IN  IF held = {} THEN "zero" ELSE CHOOSE c \in held : TRUE

\* uniforms.uColor.value.set(...): writes into the referenced Vector3, which
\* is the color of a source when the uniform was assigned source.color
SM_setColor(e, value) ==
  [e EXCEPT !.smokeSources =
     [i \in DOMAIN @ |->
        IF @[i].id = e.uniforms.addSource.uColor
        THEN [@[i] EXCEPT !.color = value]
        ELSE @[i]]]

\* content of the texture bound to a sampler (a null sampler reads zero)
SM_Sample(e, pass, k) ==
  IF e.uniforms[pass][k] = Null THEN ZeroField
  ELSE e.content[e.uniforms[pass][k]]

\* what the fragment shader of a material writes, from what it samples
SM_Fragment(e, pass) ==
  CASE pass = "addSource" ->
         \* base + d * uColor * uIntensity
         [zero |-> SM_Sample(e, pass, "uTarget").zero
                   /\ (SM_uColor(e) = "zero"
                       \/ e.uniforms[pass].uIntensity = 0)]
    [] pass = "buoyancy" ->
         \* velocity.y += (uKappa * temperature - uSigma * density) * uDt
         [zero |-> SM_Sample(e, pass, "uVelocity").zero
                   /\ ((SM_Sample(e, pass, "uTemperature").zero
                        /\ SM_Sample(e, pass, "uDensity").zero)
                       \/ e.uniforms[pass].uDt = 0)]
    [] pass = "curl" ->
         SM_Sample(e, pass, "uVelocity")
    [] pass = "vorticity" ->
         \* velocity += force * uDt, force proportional to uCurl
         [zero |-> SM_Sample(e, pass, "uVelocity").zero
                   /\ (SM_Sample(e, pass, "uCurl").zero
                       \/ e.uniforms[pass].uDt = 0)]
    [] pass = "advection" ->
         \* texture2D(uSource, coord) * uDissipation
         SM_Sample(e, pass, "uSource")
    [] pass = "divergence" ->
         SM_Sample(e, pass, "uVelocity")
    [] pass = "pressure" ->
         [zero |-> SM_Sample(e, pass, "uPressure").zero
                   /\ SM_Sample(e, pass, "uDivergence").zero]
    [] pass = "gradientSubtract" ->
         [zero |-> SM_Sample(e, pass, "uVelocity").zero
                   /\ SM_Sample(e, pass, "uPressure").zero]
    [] pass = "display" ->
         SM_Sample(e, pass, "uDensity")

\* quad.material = material; setRenderTarget(target); render(scene, camera):
\* the pass is appended to the log of the running call, with the textures it
\* samples and, for addSource, the value of uColor and the source whose colour
\* object the uniform refers to
SM_render(e, pass, target) ==
  [e EXCEPT !.content[target] = SM_Fragment(e, pass),
            !.log = Append(@, [pass   |-> pass,
                               target |-> target,
                               inputs |-> {e.uniforms[pass][k] :
                                             k \in SM_Samplers[pass]}
                                          \ {Null},
                               color  |-> IF pass = "addSource"
                                          THEN SM_uColor(e) ELSE Null,
                               source |-> IF pass = "addSource"
                                          THEN e.uniforms.addSource.uColor
                                          ELSE Null])]

\* renderer.setRenderTarget(target); renderer.clear()
SM_clearTarget(e, target) ==
  [e EXCEPT !.content[target] = ZeroField,
            !.log = Append(@, [pass |-> "clear", target |-> target,
                               inputs |-> {}, color |-> Null,
                               source |-> Null])]

\* SmokeFluidEngine.clear(): all eleven targets, in the order of the list
RECURSIVE SM_clearAll(_, _)
SM_clearAll(e, targets) ==
  IF targets = <<>> THEN e
  ELSE LET e1 == SM_clearTarget(e, Head(targets))
           rest == Tail(targets)
       IN  SM_clearAll(e1, rest)

SM_clear(e) ==
  SM_clearAll(e, <<e.velocityBuffers.read, e.velocityBuffers.write,
                   e.densityBuffers.read, e.densityBuffers.write,
                   e.temperatureBuffers.read, e.temperatureBuffers.write,
                   e.pressureBuffers.read, e.pressureBuffers.write,
                   "divergenceBuffer", "vorticityBuffer", "displayBuffer">>)

SM_swapBuffers_kept(e, buffers) ==
  [e EXCEPT ![buffers] = [read |-> @.read, write |-> @.write]]

\* SmokeFluidEngine.swapBuffers(buffers)
SM_swapBuffers(e, buffers) ==
  [e EXCEPT ![buffers] = [read |-> @.write, write |-> @.read]]

\* 0 for a zero number, 1 otherwise
Flag(x) == IF x = 0 THEN 0 ELSE 1

\* "Add density": uColor.value = source.color makes the uniform refer to the
\* colour object of the source
SM_addDensity(e, id, dt) ==
  LET e1 == setUniforms(e, "addSource",
                        [uTarget    |-> e.densityBuffers.read,
                         uColor     |-> id,
                         uIntensity |-> Flag(dt)])
  IN  SM_swapBuffers(SM_render(e1, "addSource", e1.densityBuffers.write),
                     "densityBuffers")

\* "Add temperature": uColor.value.set(source.temperature, 0, 0)
SM_addTemperature(e, temperature, dt) ==
  LET e1 == SM_setColor(
              setUniforms(e, "addSource",
                          [uTarget    |-> e.temperatureBuffers.read,
                           uIntensity |-> Flag(dt)]),
              temperature)
  IN  SM_swapBuffers(SM_render(e1, "addSource", e1.temperatureBuffers.write),
                     "temperatureBuffers")

\* "Add velocity": uColor.value.set(source.velocity.x, source.velocity.y, 0)
SM_addVelocity(e, velocity, dt) ==
  LET e1 == SM_setColor(
              setUniforms(e, "addSource",
                          [uTarget    |-> e.velocityBuffers.read,
                           uIntensity |-> Flag(dt)]),
              velocity)
  IN  SM_swapBuffers(SM_render(e1, "addSource", e1.velocityBuffers.write),
                     "velocityBuffers")

\* body of smokeSources.forEach in update, for the i-th source
SM_applySource(e, i, dt) ==
  LET source == e.smokeSources[i]
      d2 == SM_addDensity(e, source.id, dt)
      t2 == SM_addTemperature(d2, source.temperature, dt)
  IN  SM_addVelocity(t2, source.velocity, dt)

\* smokeSources.forEach(...) over the first n sources
RECURSIVE SM_applySources(_, _, _)
SM_applySources(e, n, dt) ==
  IF n = 0 THEN e
  ELSE LET e0 == SM_applySources(e, n - 1, dt)
       IN  SM_applySource(e0, n, dt)

\* Jacobi iterations per update
SmokeIterations == 30

\* the pressure loop of update: one pass per iteration, until the log of the
\* call holds `last` passes
RECURSIVE SM_solvePressure(_, _)
SM_solvePressure(e, last) ==
  IF Len(e.log) >= last THEN e
  ELSE LET e1 == setUniforms(e, "pressure",
                             [uPressure   |-> e.pressureBuffers.read,
                              uDivergence |-> "divergenceBuffer"])
           e2 == SM_swapBuffers(
                   SM_render(e1, "pressure", e1.pressureBuffers.write),
                   "pressureBuffers")
       IN  SM_solvePressure(e2, last)

\* the thirty iterations of update
SM_jacobi(e) == SM_solvePressure(e, Len(e.log) + SmokeIterations)

\* "Apply buoyancy"
SM_buoyancy(e, dt) ==
  LET e1 == setUniforms(e, "buoyancy",
                        [uVelocity    |-> e.velocityBuffers.read,
                         uTemperature |-> e.temperatureBuffers.read,
                         uDensity     |-> e.densityBuffers.read,
                         uDt          |-> Flag(dt)])
  IN  SM_swapBuffers(SM_render(e1, "buoyancy", e1.velocityBuffers.write),
                     "velocityBuffers")

\* "Calculate curl for vorticity confinement"
SM_curl(e) ==
  SM_render(setUniforms(e, "curl", [uVelocity |-> e.velocityBuffers.read]),
            "curl", "vorticityBuffer")

\* "Apply vorticity confinement"
SM_vorticity(e, dt) ==
  LET e1 == setUniforms(e, "vorticity",
                        [uVelocity |-> e.velocityBuffers.read,
                         uCurl     |-> "vorticityBuffer",
                         uDt       |-> Flag(dt)])
  IN  SM_swapBuffers(SM_render(e1, "vorticity", e1.velocityBuffers.write),
                     "velocityBuffers")

\* "Advect velocity"
SM_advectVelocity(e, dt) ==
  LET e1 == setUniforms(e, "advection",
                        [uVelocity |-> e.velocityBuffers.read,
                         uSource   |-> e.velocityBuffers.read,
                         uDt       |-> Flag(dt)])
  IN  SM_swapBuffers(SM_render(e1, "advection", e1.velocityBuffers.write),
                     "velocityBuffers")

\* "Advect density" and "Advect temperature": only uSource is assigned,
\* uVelocity keeps the texture of "Advect velocity"
SM_advect(e, buffers) ==
  LET e1 == setUniforms(e, "advection", [uSource |-> e[buffers].read])
  IN  SM_swapBuffers(SM_render(e1, "advection", e1[buffers].write), buffers)

\* "Calculate divergence"
SM_divergence(e) ==
  SM_render(setUniforms(e, "divergence",
                        [uVelocity |-> e.velocityBuffers.read]),
            "divergence", "divergenceBuffer")

\* "Clear pressure"
SM_clearPressure(e) == SM_clearTarget(e, e.pressureBuffers.read)

\* "Subtract pressure gradient"
SM_gradientSubtract(e) ==
  LET e1 == setUniforms(e, "gradientSubtract",
                        [uVelocity |-> e.velocityBuffers.read,
                         uPressure |-> e.pressureBuffers.read])
  IN  SM_swapBuffers(
        SM_render(e1, "gradientSubtract", e1.velocityBuffers.write),
        "velocityBuffers")

\* "Final display"
SM_display(e) ==
  SM_render(setUniforms(e, "display", [uDensity |-> e.densityBuffers.read]),
            "display", "displayBuffer")

\* this.time += dt
SM_advanceTime(e, dt) == [e EXCEPT !.time = @ + dt]

\* this.smokeSources.forEach(...)
SM_forEachSource(e, dt) == SM_applySources(e, Len(e.smokeSources), dt)

\* SmokeFluidEngine.update(dt)
SM_update(e, dt) ==
  LET t0 == SM_advanceTime(e, dt)
      s0 == SM_forEachSource(t0, dt)
      b2 == SM_buoyancy(s0, dt)
      c2 == SM_curl(b2)
      w2 == SM_vorticity(c2, dt)
      a2 == SM_advectVelocity(w2, dt)
      a4 == SM_advect(a2, "densityBuffers")
      a6 == SM_advect(a4, "temperatureBuffers")
      d2 == SM_divergence(a6)
      p0 == SM_clearPressure(d2)
      p1 == SM_jacobi(p0)
      g2 == SM_gradientSubtract(p1)
  IN  SM_display(g2)

\* SmokeFluidEngine.addCustomSmoke(x, y, color): the source is pushed and a
\* 100 ms timer is started for it
SM_addCustomSmoke(e) ==
  LET id == InitialSources + e.created + 1
  IN  [e EXCEPT !.smokeSources = Append(@, SM_source(id)),
                !.created = @ + 1,
                !.timers = @ \cup {id}]

\* sequence q without its i-th element
RemoveAt(q, i) == SubSeq(q, 1, i - 1) \o SubSeq(q, i + 1, Len(q))

SM_timeout_last(e, id) ==
  LET e1 == [e EXCEPT !.timers = @ \ {id}]
  IN  [e1 EXCEPT !.smokeSources = RemoveAt(@, Len(@))]

\* the timer callback of addCustomSmoke for the source named id
SM_timeout(e, id) ==
  LET index == {i \in DOMAIN e.smokeSources : e.smokeSources[i].id = id}
      e1 == [e EXCEPT !.timers = @ \ {id}]
  IN  IF index = {} THEN e1
      ELSE [e1 EXCEPT !.smokeSources =
              RemoveAt(@, CHOOSE i \in index : TRUE)]

\* SmokeFluidEngine.reset()
SM_reset(e) == [SM_clear(e) EXCEPT !.time = 0]

\* the engine the constructor returns
SM_new ==
  SM_clear(
    [velocityBuffers    |-> [read |-> "velocity0", write |-> "velocity1"],
     densityBuffers     |-> [read |-> "density0", write |-> "density1"],
     temperatureBuffers |-> [read  |-> "temperature0",
                             write |-> "temperature1"],
     pressureBuffers    |-> [read |-> "pressure0", write |-> "pressure1"],
     time         |-> 0,
     smokeSources |-> [i \in 1..InitialSources |-> SM_source(i)],
     created      |-> 0,
     timers       |-> {},
     uniforms     |-> SM_InitialUniforms,
     content      |-> [b \in SM_Buffers |-> ZeroField],
     log          |-> <<>>,
     lastCall     |-> "constructor"])

\* a public method or callback starts with an empty pass log
SM_call(e, name) == [e EXCEPT !.log = <<>>, !.lastCall = name]

SM_Idle ==
  UNCHANGED <<fluidEngine, simpleV1, fluidSim, simpleEngine, oceanEngine,
              canvas, frameLoop, fluidStore, constructed, freshOcean,
              simpleGrid, oceanGrid, fluidGrid>>

SM_Update ==
  \E dt \in {0, FrameMs} :
    /\ smokeEngine.time + dt <= MaxSmokeTime
    /\ smokeEngine' = SM_update(SM_call(smokeEngine, "update"), dt)
    /\ SM_Idle

SM_AddCustomSmoke ==
  /\ smokeEngine.created < MaxCustomSmoke
  /\ smokeEngine' = SM_addCustomSmoke(SM_call(smokeEngine, "addCustomSmoke"))
  /\ SM_Idle

SM_Timeout ==
  \E id \in smokeEngine.timers :
    /\ smokeEngine' = SM_timeout(SM_call(smokeEngine, "timeout"), id)
    /\ SM_Idle

SM_Reset ==
  /\ smokeEngine' = SM_reset(SM_call(smokeEngine, "reset"))
  /\ SM_Idle

(***************************************************************************)
(* Frame loops      src/src/main.ts, src/unnamed/part_001 (App.animate),   *)
(*                  src/src/components/FluidSimulation.tsx (useFrame),     *)
(*                  SmokeCanvas.tsx and part_002 (animate of the canvases) *)
(*                                                                         *)
(* Times are in milliseconds.                                              *)
(***************************************************************************)
\* latest time the browser clock reaches
MaxClock == 48

\* times that pass between two callbacks
Elapses == {8, 16, 24}

\* upper limit of the delta time, 0.016 s
MaxDtMs == 16

\* the loops that measure time with a clock
Clocks == {"main", "part001", "useFrame"}

\* THREE.Clock.getDelta(): the first call starts the clock and returns 0,
\* every later call returns the time since the previous call
getDelta(clock, now) ==
  [value |-> IF clock.running THEN now - clock.oldTime ELSE 0,
   clock |-> [running |-> TRUE, oldTime |-> now]]

FL_dt_unclamped(delta) == delta

\* const dt = Math.min(this.clock.getDelta(), 0.016)
FL_dt(delta) == Min(delta, MaxDtMs)

\* one frame of a loop with a clock: the engine's update is called with dt
FL_animate(f, loop) ==
  LET delta == getDelta(f.clock[loop], f.now)
  IN  [f EXCEPT !.clock[loop] = delta.clock,
                !.loop = loop,
                !.delta = delta.value,
                !.dt = FL_dt(delta.value)]

\* one frame of a canvas: engine.update(0.016), no time is measured
FL_canvasAnimate(f) ==
  [f EXCEPT !.loop = "canvas", !.delta = -1, !.dt = FrameMs]

\* no frame has run and no clock is started
FL_new ==
  [now   |-> 0,
   clock |-> [c \in Clocks |-> [running |-> FALSE, oldTime |-> 0]],
   loop  |-> Null,
   delta |-> -1,
   dt    |-> 0]

(***************************************************************************)
(* fluidStore       src/unnamed/part_000, and the brush handling of        *)
(*                  src/src/components/FluidSimulation.tsx                 *)
(*                                                                         *)
(* Sizes are in millionths; a product is rounded down to a millionth.      *)
(***************************************************************************)
\* most setBrushSize calls
MaxBrushCalls == 4

\* limits of the brush size, 0.01 and 0.2, and its initial value 0.05
MinBrush == 10000

MaxBrush == 200000

InitialBrush == 50000

\* sizes passed to setBrushSize directly
BrushArguments == {-50000, 0, 5000, 10000, 200000, 250000}

setBrushSize_unclamped(s, size) ==
  [s EXCEPT !.brushSize = size, !.requested = size, !.calls = @ + 1]

\* setBrushSize: (size) => set({ brushSize: Math.max(0.01, Math.min(0.2,
\* size)) }); the argument is remembered in requested
setBrushSize(s, size) ==
  [s EXCEPT !.brushSize = Max(MinBrush, Min(MaxBrush, size)),
            !.requested = size,
            !.calls = @ + 1]

\* handleWheel(event): the current size is scaled by 0.95 or 1.05
handleWheel(s, deltaY) ==
  LET delta == IF deltaY > 0 THEN 95 ELSE 105
      currentSize == s.brushSize
  IN  setBrushSize(s, (currentSize * delta) \div 100)

\* a render of the component: useFluidStore((state) => state.brushSize)
ST_render(s) == [s EXCEPT !.rendered = s.brushSize]

\* the splat of the useFrame callback: with the mouse down and moving,
\* addSplat is called with the brush size of the latest render as radius
ST_useFrame(s, down) ==
  IF down THEN [s EXCEPT !.radius = s.rendered] ELSE s

\* the store as created; radius is 0 while no splat was added
ST_new ==
  [brushSize |-> InitialBrush,
   rendered  |-> InitialBrush,
   radius    |-> 0,
   requested |-> InitialBrush,
   calls     |-> 0]

FL_Idle ==
  UNCHANGED <<fluidEngine, simpleV1, fluidSim, simpleEngine, oceanEngine,
              canvas, smokeEngine, constructed, freshOcean, simpleGrid,
              oceanGrid, fluidGrid>>

FL_Tick ==
  \E elapsed \in Elapses :
    /\ frameLoop.now + elapsed <= MaxClock
    /\ frameLoop' = [frameLoop EXCEPT !.now = @ + elapsed]
    /\ UNCHANGED fluidStore
    /\ FL_Idle

FL_AppAnimate ==
  \E loop \in {"main", "part001"} :
    /\ frameLoop' = FL_animate(frameLoop, loop)
    /\ UNCHANGED fluidStore
    /\ FL_Idle

FL_UseFrame ==
  \E down \in BOOLEAN :
    /\ fluidStore' = ST_useFrame(fluidStore, down)
    /\ frameLoop' = FL_animate(frameLoop, "useFrame")
    /\ FL_Idle

FL_CanvasAnimate ==
  /\ frameLoop' = FL_canvasAnimate(frameLoop)
  /\ UNCHANGED fluidStore
  /\ FL_Idle

ST_Wheel ==
  \E deltaY \in {-1, 1} :
    /\ fluidStore.calls < MaxBrushCalls
    /\ fluidStore' = handleWheel(fluidStore, deltaY)
    /\ UNCHANGED frameLoop
    /\ FL_Idle

ST_SetBrushSize ==
  \E size \in BrushArguments :
    /\ fluidStore.calls < MaxBrushCalls
    /\ fluidStore' = setBrushSize(fluidStore, size)
    /\ UNCHANGED frameLoop
    /\ FL_Idle

ST_Render ==
  /\ fluidStore' = ST_render(fluidStore)
  /\ UNCHANGED frameLoop
  /\ FL_Idle

(***************************************************************************)
(* Constructors of the engines                                             *)
(***************************************************************************)
\* widths and heights passed to a constructor
Sizes == {-1, 0, 1, 2}

CT_Classes == {"FluidEngine", "SmokeFluidEngine", "OceanFluidEngine"}

\* new THREE.Vector2(1 / width, 1 / height), each component kept as a
\* fraction: 1 / 0 is Infinity, no exception is raised
TexelSize(width, height) ==
  [x |-> [num |-> 1, den |-> width], y |-> [num |-> 1, den |-> height]]

\* what a constructor call gives: no constructor has a throw statement, a
\* THREE.WebGLRenderTarget is created for every buffer whatever the size
CT_engine(width, height, buffers) ==
  [made      |-> TRUE,
   threw     |-> FALSE,
   width     |-> width,
   height    |-> height,
   texelSize |-> TexelSize(width, height),
   targets   |-> Cardinality(buffers)]

\* new FluidEngine(renderer, width, height)
FE_constructor(width, height) == CT_engine(width, height, FE_Buffers)

\* new SmokeFluidEngine(renderer, width, height)
SM_constructor(width, height) == CT_engine(width, height, SM_Buffers)

\* new OceanFluidEngine(renderer, width, height)
OE_constructor(width, height) == CT_engine(width, height, OE_Buffers)

\* no constructor was called
CT_new ==
  [c \in CT_Classes |->
     [made |-> FALSE, threw |-> FALSE, width |-> 1, height |-> 1,
      texelSize |-> TexelSize(1, 1), targets |-> 0]]

CT_Idle ==
  UNCHANGED <<fluidEngine, simpleV1, fluidSim, simpleEngine, oceanEngine,
              canvas, smokeEngine, frameLoop, fluidStore, freshOcean,
              simpleGrid, oceanGrid, fluidGrid>>

CT_Construct ==
  \E width \in Sizes, height \in Sizes :
    /\ \/ constructed' = [constructed EXCEPT
                            !["FluidEngine"] = FE_constructor(width, height)]
       \/ constructed' = [constructed EXCEPT
                            !["SmokeFluidEngine"] =
                              SM_constructor(width, height)]
       \/ constructed' = [constructed EXCEPT
                            !["OceanFluidEngine"] =
                              OE_constructor(width, height)]
    /\ CT_Idle

(***************************************************************************)
(* SimpleFluidEngine at two texels     src/unnamed/part_007, lines 704-949 *)
(*                                                                         *)
(* The density targets are half-float textures. A texel value is counted   *)
(* in steps of 2^-24, the spacing of half-float numbers below 2^-13, so    *)
(* every value below 2048 steps is stored exactly. How the device rounds a *)
(* shader result to the texture format is not fixed by the code: it is     *)
(* "nearest" or "towardZero", the same for the life of the engine.         *)
(***************************************************************************)
\* splats accepted by the two-texel engine
MaxGridSplats == 2

\* updates in a row that find the splat queue empty
MaxQuiet == 200

\* quiet periods, runs of such updates, followed in one behaviour
MaxQuietPeriods == 1

SG_Cells == 1..2

\* colour components of a splat, in steps
SplatColors == {40, 100}

RoundingModes == {"nearest", "towardZero"}

\* uFade = 0.985, in thousandths
FadePermille == 985

\* num / den stored in a half-float texel
toHalf(num, den, mode) ==
  IF mode = "nearest" THEN (2 * num + den) \div (2 * den) ELSE num \div den

fade_amplified(v, mode) == toHalf(v * (2000 - FadePermille), 1000, mode)

\* gl_FragColor = vec4(color.rgb * uFade, 1.0)
fade(v, mode) == toHalf(v * FadePermille, 1000, mode)

\* gl_FragColor = vec4(base + d * uColor, 1.0): d is 1 at uPoint and
\* exp(-100) at the other texel, half a texture away with uRadius = 0.05
SG_splat(v, cell, splat) == IF cell = splat.cell THEN v + splat.color ELSE v

\* setRenderTarget(densityBuffers.write); render(scene, camera);
\* swapBuffers()
SG_pass(e, values) ==
  [e EXCEPT !.texels[e.densityBuffers.write] = values,
            !.densityBuffers = [read  |-> e.densityBuffers.write,
                                write |-> e.densityBuffers.read]]

\* "Apply fade effect"
SG_fade(e) ==
  SG_pass(e, [c \in SG_Cells |->
                fade(e.texels[e.densityBuffers.read][c], e.rounding)])

\* the for loop of update
RECURSIVE SG_applySplats(_, _)
SG_applySplats(e, splatCount) ==
  IF splatCount = 0 THEN e
  ELSE SG_applySplats(
         SG_pass([e EXCEPT !.splats = shift(e.splats).rest],
                 [c \in SG_Cells |->
                    SG_splat(e.texels[e.densityBuffers.read][c], c,
                             shift(e.splats).value)]),
         splatCount - 1)

\* "Update display texture": displayRT holds the tone-mapped density, named
\* here by the density it was computed from
SG_display(e) ==
  [e EXCEPT !.texels["displayRT"] = e.texels[e.densityBuffers.read]]

\* SimpleFluidEngine.update(dt): dt is not used
SG_update(e, dt) ==
  LET f == SG_fade(e)
  IN  SG_display(SG_applySplats(f, Min(Len(f.splats), SplatsPerFrame)))

\* SimpleFluidEngine.addSplat(x, y, dx, dy, color)
SG_addSplat(e, cell, color) ==
  [e EXCEPT !.splats = Append(@, [cell |-> cell, color |-> color]),
            !.arrived = @ + 1]

\* the engine the constructor returns
SG_new ==
  [densityBuffers |-> [read |-> "density0", write |-> "density1"],
   texels   |-> [b \in {"density0", "density1", "displayRT"} |->
                   [c \in SG_Cells |-> 0]],
   splats   |-> <<>>,
   arrived  |-> 0,
   rounding |-> "unknown",
   before   |-> [c \in SG_Cells |-> 0],
   peak     |-> 0,
   quiet    |-> 0,
   periods  |-> 0,
   dt       |-> 0,
   lastCall |-> "constructor"]

\* a public method starts: the density field it finds is remembered; an
\* update that finds the queue empty continues a quiet period, or starts one
\* from the field it finds
SG_call(e, name) ==
  [e EXCEPT !.lastCall = name,
            !.before = e.texels[e.densityBuffers.read],
            !.quiet = IF name = "update" /\ e.splats = <<>>
                      THEN @ + 1 ELSE 0,
            !.periods = IF name = "update" /\ e.splats = <<>> /\ e.quiet = 0
                        THEN @ + 1 ELSE @,
            !.peak = IF name = "update" /\ e.splats = <<>> /\ e.quiet = 0
                     THEN Max(e.texels[e.densityBuffers.read][1],
                              e.texels[e.densityBuffers.read][2])
                     ELSE @]

SG_Idle ==
  UNCHANGED <<fluidEngine, simpleV1, fluidSim, simpleEngine, oceanEngine,
              canvas, smokeEngine, frameLoop, fluidStore, constructed,
              freshOcean, oceanGrid, fluidGrid>>

SG_AddSplat ==
  \E cell \in SG_Cells, color \in SplatColors :
    /\ simpleGrid.arrived < MaxGridSplats
    /\ simpleGrid' = SG_addSplat(SG_call(simpleGrid, "addSplat"), cell, color)
    /\ SG_Idle

SG_Update ==
  \E dt \in {0, FrameMs},
     mode \in IF simpleGrid.rounding = "unknown" THEN RoundingModes
              ELSE {simpleGrid.rounding} :
    /\ simpleGrid.quiet < MaxQuiet
    /\ (simpleGrid.splats = <<>> /\ simpleGrid.quiet = 0) =>
         simpleGrid.periods < MaxQuietPeriods
    /\ simpleGrid' =
         SG_update([SG_call(simpleGrid, "update") EXCEPT !.rounding = mode,
                                                         !.dt = dt], dt)
    /\ SG_Idle

(***************************************************************************)
(* OceanFluidEngine on a 3 x 3 grid     src/unnamed/part_006, lines 41-430 *)
(*                                                                         *)
(* The first channel of the height targets, in millionths; the float       *)
(* texture keeps 24 significant bits, here a result is rounded to the      *)
(* nearest millionth. The velocity the wave update reads is the cleared    *)
(* velocityBuffers.read, zero at every texel. The normal, foam and display *)
(* targets are written from the height field and read by no wave pass.     *)
(***************************************************************************)
\* waves accepted by the engine on the grid
MaxGridWaves == 1

\* largest |height|, in millionths, from which a further update is followed
MaxHeight == 2000000

\* the texel in column x of row y
texel(x, y) == 3 * (y - 1) + x

column(c) == ((c - 1) % 3) + 1

row(c) == ((c - 1) \div 3) + 1

GridCells == 1..9

\* wave positions: the centre of a corner texel and of the middle texel
WavePoints == {<<1, 1>>, <<2, 2>>}

\* strength = 0.1, the default of addWave, in millionths
DefaultStrength == 100000

\* texture2D(field, ...) at the centre of the texel in column x of row y,
\* clamped to the edge of the texture
texture2D(height, x, y) ==
  height[texel(Max(1, Min(3, x)), Max(1, Min(3, y)))]

\* wave1 + wave2 + wave3 at the nine texel centres, vUv = (x - 1/2) / 3, in
\* millionths: the sines tabulated for uTime = 0 and uTime = 0.016
AmbientWaves(time) ==
  IF time = 0
  THEN <<2422, -365, 1720, -140, -1855, 625, 1230, -90, 989>>
  ELSE <<2427, -367, 1709, -108, -1867, 658, 1191, -119, 998>>

\* num / den to the nearest whole number
Nearest(num, den) == (2 * num + den) \div (2 * den)

\* velocity.x = (0 + laplacian * 0.5 + ambient) * uDamping, uDamping = 0.98
OG_velocity(laplacian, ambient) ==
  Nearest(49 * laplacian + 98 * ambient, 100)

\* the waveUpdate fragment at one texel: the new height
OG_waveUpdateAt(height, x, y, time) ==
  height[texel(x, y)] +
    OG_velocity(texture2D(height, x - 1, y) + texture2D(height, x + 1, y)
                  + texture2D(height, x, y - 1) + texture2D(height, x, y + 1)
                  - 4 * height[texel(x, y)],
                AmbientWaves(time)[texel(x, y)])

\* exp(-dist * dist / (uRadius * uRadius)) * uStrength, uRadius = 0.1, with
\* dist * dist = d2 / 9: exp(-100 / 9) = 0.0000149, exp(-200 / 9) and less
\* are below a millionth of any strength up to 1
OG_influence(d2, strength) ==
  IF d2 = 0 THEN strength
  ELSE IF d2 = 1 THEN Nearest(149 * strength, 10000000)
  ELSE 0

\* the waveImpact fragment at one texel
OG_waveImpactAt(height, x, y, wave) ==
  height[texel(x, y)] +
    OG_influence((x - wave.point[1]) * (x - wave.point[1])
                   + (y - wave.point[2]) * (y - wave.point[2]),
                 wave.strength)

\* a full-screen pass into heightBuffers.write, then swapHeightBuffers():
\* texel(x, y) is the value written at that texel
OG_wavePass(e) ==
  [e EXCEPT !.height =
     [c \in GridCells |->
        OG_waveUpdateAt(e.height, column(c), row(c),
                        e.time)]]

RECURSIVE OG_applyWaves(_, _)
OG_applyWaves(e, wavesToProcess) ==
  IF wavesToProcess = 0 THEN e
  ELSE OG_applyWaves(
         [e EXCEPT !.waves = shift(e.waves).rest,
                   !.height =
                     [c \in GridCells |->
                        OG_waveImpactAt(e.height, column(c), row(c),
                                        shift(e.waves).value)]],
         wavesToProcess - 1)

\* OceanFluidEngine.update(dt), the passes that write the height field
OG_update(e, dt) ==
  LET w == OG_wavePass([e EXCEPT !.time = @ + dt])
  IN  OG_applyWaves(w, Min(Len(w.waves), WavesPerFrame))

\* OceanFluidEngine.addWave(x, y, strength)
OG_addWave(e, point, strength) ==
  [e EXCEPT !.waves = Append(@, [point |-> point, strength |-> strength]),
            !.arrived = @ + 1]

\* the engine the constructor returns
OG_new ==
  [height   |-> [c \in GridCells |-> 0],
   time     |-> 0,
   waves    |-> <<>>,
   arrived  |-> 0,
   frames   |-> 0,
   lastCall |-> "constructor"]

OG_Idle ==
  UNCHANGED <<fluidEngine, simpleV1, fluidSim, simpleEngine, oceanEngine,
              canvas, smokeEngine, frameLoop, fluidStore, constructed,
              freshOcean, simpleGrid, fluidGrid>>

OG_AddWave ==
  \E point \in WavePoints :
    /\ oceanGrid.arrived < MaxGridWaves
    /\ oceanGrid' = OG_addWave([oceanGrid EXCEPT !.lastCall = "addWave"],
                               point, DefaultStrength)
    /\ OG_Idle

OG_Update ==
  \E dt \in {0, FrameMs} :
    /\ oceanGrid.time + dt <= MaxOceanTime
    /\ \A c \in GridCells : /\ oceanGrid.height[c] <= MaxHeight
                           /\ oceanGrid.height[c] >= -MaxHeight
    /\ oceanGrid' = OG_update([oceanGrid EXCEPT !.lastCall = "update",
                                                !.frames = @ + 1], dt)
    /\ OG_Idle

(***************************************************************************)
(* FluidEngine on a 3 x 3 grid: the velocity field                         *)
(* src/src/engine/FluidEngine.ts, src/src/engine/shaders, part_008         *)
(*                                                                         *)
(* Velocity, divergence and pressure in steps of 1/4096, every shader      *)
(* result rounded to the nearest step (the half-float targets keep 11      *)
(* significant bits). The engine is followed through update(0): uDt = 0    *)
(* makes the advection sample its own texel and the vorticity force zero.  *)
(* The density field takes no part in the passes modelled here.           *)
(***************************************************************************)
\* update calls followed on the grid
MaxGridFrames == 3

\* steps in one unit of velocity
Steps == 64 * 64

\* uPoint of a splat: the centre of a corner, an edge or the middle texel
SplatPoints == {<<1, 1>>, <<2, 1>>, <<2, 2>>}

\* (dx, dy) of a splat
SplatVelocities == {<<Steps, 0>>, <<0, Steps>>, <<Steps, Steps>>}

\* exp(-dot(p, p) / uRadius) in steps, uRadius = 0.05 and
\* dot(p, p) = d2 / 9: exp(-20 / 9) = 0.1084, exp(-40 / 9) = 0.0117,
\* exp(-80 / 9) = 0.0001, less beyond
FG_splatWeight(d2) ==
  IF d2 = 0 THEN Steps
  ELSE IF d2 = 1 THEN 444
  ELSE IF d2 = 2 THEN 48
  ELSE IF d2 = 4 THEN 1
  ELSE 0

\* the splat fragment at one texel: base + splat * uColor
FG_splatAt(velocity, x, y, point, color) ==
  LET weight == FG_splatWeight((x - point[1]) * (x - point[1])
                                 + (y - point[2]) * (y - point[2]))
  IN  <<velocity[texel(x, y)][1] + Nearest(weight * color[1], Steps),
        velocity[texel(x, y)][2] + Nearest(weight * color[2], Steps)>>

\* the advection fragment at one texel with uDt = 0:
\* texture2D(uSource, vUv) * uDissipation, uDissipation = 1 - 0.0001
FG_advectionAt(velocity, x, y) ==
  <<Nearest(9999 * velocity[texel(x, y)][1], 10000),
    Nearest(9999 * velocity[texel(x, y)][2], 10000)>>

\* the divergence fragment at one texel
FG_divergenceAt(velocity, x, y) ==
  Nearest((texture2D(velocity, x + 1, y)[1] - texture2D(velocity, x - 1, y)[1])
            + (texture2D(velocity, x, y + 1)[2]
                 - texture2D(velocity, x, y - 1)[2]),
          2)

\* the pressure fragment at one texel
FG_pressureAt(pressure, divergence, x, y) ==
  Nearest(texture2D(pressure, x - 1, y) + texture2D(pressure, x + 1, y)
            + texture2D(pressure, x, y - 1) + texture2D(pressure, x, y + 1)
            - divergence[texel(x, y)],
          4)

\* the gradientSubtract fragment at one texel
FG_gradientSubtractAt(velocity, pressure, x, y) ==
  <<velocity[texel(x, y)][1]
      - Nearest(texture2D(pressure, x + 1, y) - texture2D(pressure, x - 1, y),
                2),
    velocity[texel(x, y)][2]
      - Nearest(texture2D(pressure, x, y + 1) - texture2D(pressure, x, y - 1),
                2)>>

\* the divergence pass over the whole target
FG_divergence(velocity) ==
  [c \in GridCells |-> FG_divergenceAt(velocity, column(c), row(c))]

\* "Solve pressure": the Jacobi passes that remain
RECURSIVE FG_solvePressure(_, _, _)
FG_solvePressure(pressure, divergence, iterations) ==
  IF iterations = 0 \/ pressure # pressure THEN pressure
  ELSE FG_solvePressure(
         [c \in GridCells |->
            FG_pressureAt(pressure, divergence, column(c), row(c))],
         divergence, iterations - 1)

\* "Advect velocity" and "Vorticity confinement" of update(0)
FG_advect(e) ==
  [e EXCEPT !.velocity =
     [c \in GridCells |-> FG_advectionAt(e.velocity, column(c), row(c))]]

\* "Pressure projection", "Clear pressure", "Solve pressure" and "Subtract
\* pressure gradient"
FG_project(e) ==
  LET divergence == FG_divergence(e.velocity)
      pressure == FG_solvePressure([c \in GridCells |-> 0], divergence,
                                   JacobiIterations)
  IN  [e EXCEPT !.sampled = e.velocity,
                !.divergence = divergence,
                !.pressure = pressure,
                !.velocity =
                  [c \in GridCells |->
                     FG_gradientSubtractAt(e.velocity, pressure, column(c),
                                           row(c))]]

\* FluidEngine.update(0)
FG_update(e) == FG_project(FG_advect(e))

\* FluidEngine.addSplat(x, y, dx, dy, color): the velocity pass
FG_addSplat(e, point, color) ==
  [e EXCEPT !.velocity =
              [c \in GridCells |->
                 FG_splatAt(e.velocity, column(c), row(c), point, color)],
            !.arrived = @ + 1]

\* the engine the constructor returns
FG_new ==
  [velocity   |-> [c \in GridCells |-> <<0, 0>>],
   sampled    |-> [c \in GridCells |-> <<0, 0>>],
   divergence |-> [c \in GridCells |-> 0],
   pressure   |-> [c \in GridCells |-> 0],
   arrived    |-> 0,
   frames     |-> 0,
   lastCall   |-> "constructor"]

FG_Idle ==
  UNCHANGED <<fluidEngine, simpleV1, fluidSim, simpleEngine, oceanEngine,
              canvas, smokeEngine, frameLoop, fluidStore, constructed,
              freshOcean, simpleGrid, oceanGrid>>

FG_AddSplat ==
  \E point \in SplatPoints, color \in SplatVelocities :
    /\ fluidGrid.arrived < MaxGridSplats
    /\ fluidGrid' = FG_addSplat([fluidGrid EXCEPT !.lastCall = "addSplat"],
                                point, color)
    /\ FG_Idle

FG_Update ==
  /\ fluidGrid.frames < MaxGridFrames
  /\ fluidGrid' = FG_update([fluidGrid EXCEPT !.lastCall = "update",
                                              !.frames = @ + 1])
  /\ FG_Idle

(***************************************************************************)
(* Specifications: one per engine, over the same variables.                *)
(***************************************************************************)
Init ==
  /\ fluidEngine = FE_new
  /\ simpleV1 = V1_new
  /\ fluidSim = FS_new
  /\ simpleEngine = SE_new
  /\ oceanEngine = OE_new
  /\ canvas = [c \in Canvases |-> CV_new]
  /\ smokeEngine = SM_new
  /\ frameLoop = FL_new
  /\ fluidStore = ST_new
  /\ constructed = CT_new
  /\ freshOcean = OE_new
  /\ simpleGrid = SG_new
  /\ oceanGrid = OG_new
  /\ fluidGrid = FG_new

NextFluidEngine ==
  \/ FE_AddSplat
  \/ FE_AddRandomSplats
  \/ FE_Reset
  \/ FE_UpdateConfig
  \/ FE_Update

SpecFluidEngine == Init /\ [][NextFluidEngine]_vars

NextSimpleV1 ==
  \/ V1_AddSplat
  \/ V1_Update
  \/ V1_Dispose

SpecSimpleV1 == Init /\ [][NextSimpleV1]_vars

NextFluidSim ==
  \/ FS_AddSplat
  \/ FS_Update
  \/ FS_SolvePressure
  \/ FS_SubtractGradient

SpecFluidSim == Init /\ [][NextFluidSim]_vars

NextQueues ==
  \/ SE_AddSplat
  \/ SE_Update
  \/ SE_Reset
  \/ OE_AddWave
  \/ OE_Update
  \/ OE_Reset

SpecQueues == Init /\ [][NextQueues]_vars

NextCanvas ==
  \/ CV_Mount
  \/ CV_AnimationFrame
  \/ CV_InputEvent
  \/ CV_Timeout
  \/ CV_Interval
  \/ CV_Cleanup

SpecCanvas == Init /\ [][NextCanvas]_vars

NextSimpleGrid ==
  \/ SG_AddSplat
  \/ SG_Update

SpecSimpleGrid == Init /\ [][NextSimpleGrid]_vars

NextOceanGrid ==
  \/ OG_AddWave
  \/ OG_Update

SpecOceanGrid == Init /\ [][NextOceanGrid]_vars

NextFluidGrid ==
  \/ FG_AddSplat
  \/ FG_Update

SpecFluidGrid == Init /\ [][NextFluidGrid]_vars

NextOcean ==
  \/ OE_AddWave
  \/ OE_Update
  \/ OE_Reset

SpecOcean == Init /\ [][NextOcean]_vars

NextSmoke ==
  \/ SM_Update
  \/ SM_AddCustomSmoke
  \/ SM_Timeout
  \/ SM_Reset

SpecSmoke == Init /\ [][NextSmoke]_vars

\* the update calls of the two engines with a clear-and-iterate pressure
\* projection, and what changes the passes an update issues
NextProjection ==
  \/ FE_UpdateConfig
  \/ FE_Update
  \/ SM_AddCustomSmoke
  \/ SM_Update

SpecProjection == Init /\ [][NextProjection]_vars

NextFrameLoop ==
  \/ FL_Tick
  \/ FL_AppAnimate
  \/ FL_UseFrame
  \/ FL_CanvasAnimate

SpecFrameLoop == Init /\ [][NextFrameLoop]_vars

NextFluidStore ==
  \/ ST_Wheel
  \/ ST_SetBrushSize
  \/ ST_Render
  \/ FL_UseFrame

SpecFluidStore == Init /\ [][NextFluidStore]_vars

NextConstruct == CT_Construct

SpecConstruct == Init /\ [][NextConstruct]_vars

(***************************************************************************)
(* Properties.                                                             *)
(***************************************************************************)
\* C1: FluidEngine, after any sequence of addSplat, addRandomSplats, reset
\* and update calls: every pass of the last call rendered into a buffer that
\* none of its sampler uniforms was bound to, and the read and write members
\* of the velocity, density and pressure pairs are distinct buffers.
C1_ReadWriteSeparation ==
  /\ \A i \in DOMAIN fluidEngine.log :
       fluidEngine.log[i].target \notin fluidEngine.log[i].inputs
  /\ fluidEngine.velocityFBO.read # fluidEngine.velocityFBO.write
  /\ fluidEngine.densityFBO.read # fluidEngine.densityFBO.write
  /\ fluidEngine.pressureFBO.read # fluidEngine.pressureFBO.write

\* an update with vorticity confinement has run on swapped pairs: all of its
\* 27 passes are in the log and the velocity pair is swapped again
C1_Witness ==
  /\ fluidEngine.lastCall = "update"
  /\ Len(fluidEngine.log) = JacobiIterations + 7
  /\ \E i \in DOMAIN fluidEngine.log :
       /\ fluidEngine.log[i].pass = "gradientSubtract"
       /\ fluidEngine.log[i].inputs = {"velocity1", "pressure0"}
       /\ fluidEngine.log[i].target = "velocity0"
  /\ fluidEngine.velocityFBO.read = "velocity0"
  /\ fluidEngine.densityFBO.read = "density0"

\* C2: SimpleFluidEngine of src/src/engine: no pass of an update renders
\* into the render target it samples, and densityRT and velocityRT are two
\* distinct buffers.
C2_SeparationV1 ==
  /\ \A i \in DOMAIN simpleV1.log :
       simpleV1.log[i].target \notin simpleV1.log[i].inputs
  /\ simpleV1.densityRT # simpleV1.velocityRT

\* C3: FluidSimulation: advectDensity samples the density target written
\* last, and after an update the texture getDensityTexture returns holds the
\* contribution of every splat added before.
C3_SplatInDensityTexture ==
  fluidSim.lastCall = "update" =>
    /\ fluidSim.advected.latest \in {-1, fluidSim.advected.source}
    /\ \A splat \in 1..fluidSim.arrived :
         splat \in FS_getDensityTexture(fluidSim)

\* the arrivals 1, 2, ..., n in arrival order
Arrivals(n) == [i \in 1..n |-> i]

\* C4: SimpleFluidEngine (part_007) and OceanFluidEngine, since the last
\* reset: the splats (waves) applied to the current density (height) buffer,
\* in the order of application, followed by the queue, are exactly the
\* arrivals in arrival order: applied once each, in order, none dropped.
C4_FifoOrder ==
  /\ simpleEngine.content[simpleEngine.densityBuffers.read]
       \o simpleEngine.splats = Arrivals(simpleEngine.arrived)
  /\ oceanEngine.content[oceanEngine.heightBuffers.read]
       \o oceanEngine.waves = Arrivals(oceanEngine.arrived)

\* both engines have just run an update that started with more queued than
\* the cap, after an earlier update had applied some already
C4_Witness ==
  /\ simpleEngine.lastCall = "update"
  /\ simpleEngine.queuedAtCall = SplatsPerFrame + 1
  /\ simpleEngine.splats = <<7>>
  /\ simpleEngine.content[simpleEngine.densityBuffers.read]
       = <<1, 2, 3, 4, 5, 6>>
  /\ oceanEngine.lastCall = "update"
  /\ oceanEngine.queuedAtCall = WavesPerFrame + 2
  /\ oceanEngine.waves = <<6, 7>>
  /\ oceanEngine.content[oceanEngine.heightBuffers.read] = <<1, 2, 3, 4, 5>>

\* splats the passes of a log applied, in the order of the passes
RECURSIVE AppliedIn(_)
AppliedIn(log) ==
  IF log = <<>> THEN <<>>
  ELSE IF Head(log).pass = "splat"
       THEN <<Head(log).splat>> \o AppliedIn(Tail(log))
       ELSE AppliedIn(Tail(log))

\* C5: SimpleFluidEngine of src/src/engine: an update applies the queued
\* splats in arrival order.
C5_ArrivalOrderV1 ==
  simpleV1.lastCall = "update" =>
    \A i, j \in DOMAIN AppliedIn(simpleV1.log) :
      i < j => AppliedIn(simpleV1.log)[i] < AppliedIn(simpleV1.log)[j]

\* passes of a log that apply a queued event
Applications(log) ==
  Cardinality({i \in DOMAIN log : log[i].pass \in {"splat", "waveImpact"}})

\* C6: an update that starts with n queued events applies at most 5 splats
\* (both SimpleFluidEngine versions) or 3 waves (OceanFluidEngine) and
\* leaves max(0, n - cap) events queued.
C6_PerFrameCap ==
  /\ simpleV1.lastCall = "update" =>
       /\ Applications(simpleV1.log) <= SplatsPerFrame
       /\ Len(simpleV1.splats)
            = Max(0, simpleV1.queuedAtCall - SplatsPerFrame)
  /\ simpleEngine.lastCall = "update" =>
       /\ Applications(simpleEngine.log) <= SplatsPerFrame
       /\ Len(simpleEngine.splats)
            = Max(0, simpleEngine.queuedAtCall - SplatsPerFrame)
  /\ oceanEngine.lastCall = "update" =>
       /\ Applications(oceanEngine.log) <= WavesPerFrame
       /\ Len(oceanEngine.waves)
            = Max(0, oceanEngine.queuedAtCall - WavesPerFrame)

\* C7: the splat queue of SimpleFluidEngine (part_007) and the wave queue of
\* OceanFluidEngine stay below a capacity whatever the interleaving of
\* addSplat / addWave with update; the only limit the engines know is the
\* number of arrivals itself.
C7_QueueBelowCapacity ==
  /\ Len(simpleEngine.splats) < MaxArrivals
  /\ Len(oceanEngine.waves) < MaxArrivals

\* C8: once the cleanup has disposed the engine of a canvas, the animation
\* loop calls engine.update no more.
C8_NoUpdateAfterDispose ==
  [][\A c \in Canvases :
       canvas[c].disposed => canvas'[c].updateCalls = canvas[c].updateCalls]_vars

\* C9: when FluidEngine.reset() returns, the velocity, density and pressure
\* fields are zero and no splat pass has followed the clearing.
C9_ResetLeavesZero ==
  fluidEngine.lastCall = "reset" =>
    /\ fluidEngine.content[fluidEngine.velocityFBO.read].zero
    /\ fluidEngine.content[fluidEngine.densityFBO.read].zero
    /\ fluidEngine.content[fluidEngine.pressureFBO.read].zero
    /\ \A i \in DOMAIN fluidEngine.log : fluidEngine.log[i].pass # "splat"

\* C10: when FluidEngine.reset() returns, getDisplayTexture() yields what it
\* yields right after construction.
C10_ResetRestoresDisplay ==
  fluidEngine.lastCall = "reset" =>
    FE_getDisplayTexture(fluidEngine) = FE_getDisplayTexture(FE_new)

\* C11: when SmokeFluidEngine.reset() returns, the source list holds no
\* source added by addCustomSmoke: only the sources of the constructor are
\* left to inject in the next update.
C11_ResetDropsCustomSmoke ==
  smokeEngine.lastCall = "reset" =>
    \A i \in DOMAIN smokeEngine.smokeSources :
      smokeEngine.smokeSources[i].id <= InitialSources

\* the six fields of a source
SM_Fields == {"position", "velocity", "color", "temperature", "density",
              "radius"}

\* C16: SmokeFluidEngine.update leaves the position, velocity, color,
\* temperature, density and radius of every source as they were built, and
\* every density injection of a source uses the color the source was built
\* with.
C16_SourcesUnchanged ==
  /\ \A i \in DOMAIN smokeEngine.smokeSources :
       \A f \in SM_Fields : smokeEngine.smokeSources[i][f] = f
  /\ \A k \in DOMAIN smokeEngine.log :
       (smokeEngine.log[k].pass = "addSource"
        /\ smokeEngine.log[k].target \in {"density0", "density1"})
         => smokeEngine.log[k].color = "color"

\* C12: after dispose() every render target and every material the engine
\* has created since construction is disposed, the materials made inside
\* update and the targets a swap dropped from the fields included.
C12_DisposeReleasesAll ==
  simpleV1.lastCall = "dispose" =>
    /\ simpleV1.allocated = {}
    /\ simpleV1.copyMaterials = 0

\* largest element of a non-empty set of numbers
Last(S) == CHOOSE i \in S : \A j \in S : j <= i

\* the pressure projection of one update, read off its log: one divergence
\* pass that samples the target of the latest velocity write before it, then
\* `iterations` Jacobi passes, then one gradient subtraction that samples, of
\* the pressure targets, the one the last Jacobi pass wrote
ProjectionOrdered(log, velocity, pressure, iterations) ==
  \E d \in DOMAIN log, g \in DOMAIN log :
    LET writes == {j \in 1..(d - 1) : log[j].target \in velocity}
        jacobi == {i \in DOMAIN log : log[i].pass = "pressure"}
    IN  /\ \A i \in DOMAIN log : log[i].pass = "divergence" <=> i = d
        /\ \A i \in DOMAIN log : log[i].pass = "gradientSubtract" <=> i = g
        /\ writes # {}
        /\ log[d].inputs = {log[Last(writes)].target}
        /\ Cardinality(jacobi) = iterations
        /\ \A i \in jacobi : d < i /\ i < g
        /\ log[g].inputs \cap pressure = {log[Last(jacobi)].target}

\* C13: in every update of FluidEngine and of SmokeFluidEngine the divergence
\* pass samples the velocity buffer the last advection, forcing or vorticity
\* pass of that update produced, all Jacobi iterations (20 resp. 30) run
\* between the divergence pass and gradient subtraction, and gradient
\* subtraction samples the pressure buffer the last iteration wrote.
C13_ProjectionOrder ==
  /\ fluidEngine.lastCall = "update" =>
       ProjectionOrdered(fluidEngine.log, {"velocity0", "velocity1"},
                         {"pressure0", "pressure1"}, JacobiIterations)
  /\ smokeEngine.lastCall = "update" =>
       ProjectionOrdered(smokeEngine.log, {"velocity0", "velocity1"},
                         {"pressure0", "pressure1"}, SmokeIterations)

\* both engines have run an update, FluidEngine without the vorticity pass
\* and SmokeFluidEngine with a custom source
C13_Witness ==
  /\ fluidEngine.lastCall = "update"
  /\ fluidEngine.config.vorticity = 0
  /\ smokeEngine.lastCall = "update"
  /\ Len(smokeEngine.smokeSources) > InitialSources

\* C14: whatever iteration count solvePressure was called with, the
\* subtractGradient that follows samples the pressure buffer the last Jacobi
\* iteration of that solvePressure call wrote.
C14_GradientSamplesLastJacobi ==
  (fluidSim.lastCall \in {"subtractGradient", "update"}
   /\ fluidSim.gradient.latest # -1)
    => fluidSim.gradient.pressure = fluidSim.gradient.latest

\* the first Jacobi pass of a log samples a target that the pass right before
\* it has cleared
FirstJacobiCleared(log) ==
  LET jacobi == {i \in DOMAIN log : log[i].pass = "pressure"}
      first  == CHOOSE i \in jacobi : \A j \in jacobi : i <= j
  IN  jacobi # {} =>
        /\ first > 1
        /\ log[first - 1].pass = "clear"
        /\ log[first - 1].target \in log[first].inputs

\* C15: in FluidEngine, SmokeFluidEngine and FluidSimulation the pressure
\* buffer the first Jacobi iteration of an update samples is zero everywhere,
\* whatever pressure earlier frames left.
C15_FirstJacobiSamplesZero ==
  /\ fluidEngine.lastCall = "update" => FirstJacobiCleared(fluidEngine.log)
  /\ smokeEngine.lastCall = "update" => FirstJacobiCleared(smokeEngine.log)
  /\ (fluidSim.lastCall = "update" /\ fluidSim.firstJacobi.ran)
       => fluidSim.firstJacobi.sampled = {}

\* C17: every pass of one FluidEngine.update runs under one configuration,
\* the one the latest updateConfig before that update wrote (the constructor
\* defaults without one): no updateConfig takes effect between the first and
\* the last pass, and the vorticity pass is issued exactly if the written
\* vorticity is positive.
C17_OneConfigPerUpdate ==
  fluidEngine.lastCall = "update" =>
    /\ \A i \in DOMAIN fluidEngine.log :
         fluidEngine.log[i].config = fluidEngine.configWritten
    /\ (\E i \in DOMAIN fluidEngine.log :
          fluidEngine.log[i].pass = "vorticity")
         <=> fluidEngine.configWritten.vorticity > 0

\* an update has run after updateConfig switched vorticity off
C17_Witness ==
  /\ fluidEngine.lastCall = "update"
  /\ fluidEngine.configWritten.vorticity = 0
  /\ Len(fluidEngine.log) = JacobiIterations + 6

\* C18: every update(dt) a frame loop issues (App.animate of main.ts and of
\* part_001, the useFrame callback, the animate functions of the canvases)
\* passes dt <= 0.016 s, whatever time passed since the previous frame.
C18_DtAtMostFrame ==
  frameLoop.loop # Null => frameLoop.dt <= MaxDtMs

\* a loop with a clock ran a frame later than 16 ms after its previous one
C18_Witness ==
  /\ frameLoop.loop \in Clocks
  /\ frameLoop.delta > MaxDtMs
  /\ frameLoop.dt = MaxDtMs

\* C19: fluidStore.brushSize stays within [0.01, 0.2] after any sequence of
\* setBrushSize calls (wheel events and arguments out of the range), and so
\* does every radius the useFrame callback passes to FluidEngine.addSplat.
C19_BrushSizeInRange ==
  /\ MinBrush <= fluidStore.brushSize
  /\ fluidStore.brushSize <= MaxBrush
  /\ fluidStore.radius # 0 =>
       (MinBrush <= fluidStore.radius /\ fluidStore.radius <= MaxBrush)

\* a size above the range was requested, and addSplat got the limit
C19_Witness ==
  /\ fluidStore.requested > MaxBrush
  /\ fluidStore.brushSize = MaxBrush
  /\ fluidStore.radius = MaxBrush

\* C20: constructing a FluidEngine, SmokeFluidEngine or OceanFluidEngine
\* with width <= 0 or height <= 0 raises an error, and no engine with
\* allocated buffers is returned.
C20_InvalidSizeRejected ==
  \A c \in CT_Classes :
    (constructed[c].made
     /\ (constructed[c].width <= 0 \/ constructed[c].height <= 0))
      => (constructed[c].threw /\ constructed[c].targets = 0)

\* C28: FluidEngine.update issues the vorticity pass, and the velocity swap
\* after it, exactly if config.vorticity > 0 at that update: then the third
\* pass is the vorticity pass over the self-advected velocity and the
\* divergence pass samples its output; with vorticity = 0 no vorticity pass
\* is issued and the divergence pass samples the output of the velocity
\* self-advection (the first pass) directly.
C28_VorticityOnlyIfEnabled ==
  fluidEngine.lastCall = "update" =>
    LET log == fluidEngine.log
    IN  /\ log[1].pass = "advection"
        /\ IF fluidEngine.config.vorticity > 0
           THEN /\ log[3].pass = "vorticity"
                /\ log[3].inputs = {log[1].target}
                /\ log[4].pass = "divergence"
                /\ log[4].inputs = {log[3].target}
                /\ log[3].target # log[1].target
           ELSE /\ \A i \in DOMAIN log : log[i].pass # "vorticity"
                /\ log[3].pass = "divergence"
                /\ log[3].inputs = {log[1].target}

\* an update has run with vorticity switched off, and the divergence pass
\* came third
C28_Witness ==
  /\ fluidEngine.lastCall = "update"
  /\ fluidEngine.config.vorticity = 0
  /\ fluidEngine.log[3].pass = "divergence"

\* indices of the advection passes in a pass log, in the order of the log
AdvectionPasses(log) == {i \in DOMAIN log : log[i].pass = "advection"}

\* C25: in SmokeFluidEngine.update the density and the temperature advection
\* pass sample, as velocity, the buffer the velocity self-advection of the
\* same update wrote (velocityBuffers.read at that moment), not the buffer
\* that was current before the self-advection.
C25_AdvectionSamplesNewVelocity ==
  smokeEngine.lastCall = "update" =>
    LET log   == smokeEngine.log
        first == CHOOSE i \in AdvectionPasses(log) :
                   \A j \in AdvectionPasses(log) : i <= j
    IN  \A j \in AdvectionPasses(log) \ {first} :
          log[first].target \in log[j].inputs

\* the sources of the list, by name, in the order of the list
SourceIds(e) == [i \in DOMAIN e.smokeSources |-> e.smokeSources[i].id]

\* the sources an update applied, in the order of the addSource passes
AppliedSources(log) ==
  LET passes == SelectSeq(log, LAMBDA p : p.pass = "addSource")
  IN  [i \in DOMAIN passes |-> passes[i].source]

\* C27: a source added by addCustomSmoke is in the source list exactly while
\* its removal timer is pending, whatever other custom sources are pending and
\* whether or not reset() ran: the list is the three initial vents, in their
\* order, followed by the custom sources with a pending timer, each once (so
\* it is the three vents once every timer has fired); and an update applies
\* exactly the sources of the list, each with its density, temperature and
\* velocity pass.
C27_CustomSourceUntilTimer ==
  LET ids == SourceIds(smokeEngine)
  IN  /\ Len(ids) = InitialSources + Cardinality(smokeEngine.timers)
      /\ \A i \in 1..InitialSources : ids[i] = i
      /\ {ids[i] : i \in DOMAIN ids} =
           (1..InitialSources) \cup smokeEngine.timers
      /\ smokeEngine.lastCall = "update" =>
           /\ Len(AppliedSources(smokeEngine.log)) = 3 * Len(ids)
           /\ \A i \in DOMAIN ids :
                \A k \in 1..3 :
                  AppliedSources(smokeEngine.log)[3 * (i - 1) + k] = ids[i]

\* of two pending custom sources the timer of the first has fired, and an
\* update has applied the remaining four sources
C27_Witness ==
  /\ smokeEngine.created = 2
  /\ smokeEngine.timers = {InitialSources + 2}
  /\ smokeEngine.lastCall = "update"
  /\ Len(AppliedSources(smokeEngine.log)) = 3 * (InitialSources + 1)

\* passes of the wave physics
OE_PhysicsPasses == {"waveUpdate", "waveImpact"}

\* C29: over any sequence of addWave, update and reset calls, no wave-update
\* and no wave-impact pass of OceanFluidEngine samples a buffer that the
\* normal pass, the foam pass, the foam copy or the display pass has written
\* before it.
C29_DisplayStagesDoNotFeedBack ==
  \A i \in DOMAIN oceanEngine.log :
    oceanEngine.log[i].pass \in OE_PhysicsPasses =>
      oceanEngine.log[i].inputs \cap oceanEngine.log[i].derived = {}

\* a wave-impact pass has run after the display stages of an earlier update
\* had written their four buffers
C29_Witness ==
  \E i \in DOMAIN oceanEngine.log :
    /\ oceanEngine.log[i].pass = "waveImpact"
    /\ Cardinality(oceanEngine.log[i].derived) = 4

\* C26: the velocity the wave-update pass of OceanFluidEngine reads in one
\* update is the velocity that pass computed in the previous update: the
\* texture bound to uVelocity is the buffer that holds the computed velocity.
C26_WaveVelocityCarried ==
  \A i \in DOMAIN oceanEngine.log :
    (oceanEngine.log[i].pass = "waveUpdate"
     /\ oceanEngine.log[i].carried # Null)
      => oceanEngine.log[i].velocity = oceanEngine.log[i].carried

\* the fields of an engine by role, whichever buffer of a pair holds them:
\* content and time dependence of every target, the wave queue and the time
OE_Fields(e) ==
  LET field(b) == [content |-> e.content[b], stamp |-> e.stamp[b]]
  IN  [height        |-> field(e.heightBuffers.read),
       heightWrite   |-> field(e.heightBuffers.write),
       velocity      |-> field(e.velocityBuffers.read),
       velocityWrite |-> field(e.velocityBuffers.write),
       normal        |-> field("normalBuffer"),
       foam          |-> field("foamBuffer"),
       display       |-> field("displayRT"),
       waves         |-> e.waves,
       time          |-> e.time]

\* C30: after OceanFluidEngine.reset() every buffer is cleared, the wave
\* queue is empty and time is 0, and after any sequence of addWave and update
\* calls that follows the engine holds the same fields as a freshly
\* constructed engine given the same calls.
C30_ResetEqualsFresh ==
  /\ oceanEngine.lastCall = "reset" =>
       /\ \A b \in OE_Buffers : oceanEngine.content[b] = <<>>
       /\ oceanEngine.waves = <<>>
       /\ oceanEngine.time = 0
  /\ OE_Fields(oceanEngine) = OE_Fields(freshOcean)

\* an engine that was reset after an update, so that its height buffers are
\* swapped with respect to the fresh engine, has since applied a wave at a
\* later time
C30_Witness ==
  /\ oceanEngine.heightBuffers # freshOcean.heightBuffers
  /\ oceanEngine.lastCall = "update"
  /\ oceanEngine.time > 0
  /\ \E i \in DOMAIN oceanEngine.log : oceanEngine.log[i].pass = "waveImpact"

(***************************************************************************)
(* Two-texel SimpleFluidEngine: what update does to the density field      *)
(***************************************************************************)
SG_density(e) == e.texels[e.densityBuffers.read]

\* an update that found the splat queue empty has just returned
SG_QuietUpdate == simpleGrid.lastCall = "update" /\ simpleGrid.quiet > 0

\* C21: update(0) with no pending splats leaves the density field of the
\* SimpleFluidEngine of part_007 as it found it, whatever the field holds.
C21_ZeroDtUpdateChangesNothing ==
  (SG_QuietUpdate /\ simpleGrid.dt = 0) =>
    SG_density(simpleGrid) = simpleGrid.before

\* the largest value a texel keeps under a fade rounded to nearest:
\* (1000 - FadePermille) / 1000 of it is less than half a step
Plateau == 1000 \div (2 * (1000 - FadePermille))

\* C22 as stated: with an empty splat queue every update multiplies every
\* density texel by the same factor below 1 (to within one step of the
\* texture format), no texel grows, every non-zero texel shrinks, and the
\* field is zero, below every positive tolerance, after as many updates as the
\* largest texel had steps.
C22_FieldFadesToZero ==
  SG_QuietUpdate =>
    \A c \in SG_Cells :
      LET old == simpleGrid.before[c]
          new == SG_density(simpleGrid)[c]
      IN  /\ 1000 * new < FadePermille * old + 1000
          /\ 1000 * new > FadePermille * old - 1000
          /\ new <= old
          /\ old > 0 => new < old
          /\ new <= Max(0, simpleGrid.peak - simpleGrid.quiet)

\* C22, amended: as above, but only a texel above Plateau steps (2^-24 each)
\* is sure to shrink, and after a bounded number of updates the field is at
\* or below Plateau steps rather than below every tolerance.
C22_FieldFadesToPlateau ==
  SG_QuietUpdate =>
    \A c \in SG_Cells :
      LET old == simpleGrid.before[c]
          new == SG_density(simpleGrid)[c]
      IN  /\ 1000 * new < FadePermille * old + 1000
          /\ 1000 * new > FadePermille * old - 1000
          /\ new <= old
          /\ old > Plateau => new < old
          /\ new <= Max(Plateau, simpleGrid.peak - simpleGrid.quiet)

\* a field that started above twice the plateau has faded for as many updates
\* as its largest texel had steps, and an update has just left a texel at the
\* plateau
C22_Witness ==
  /\ SG_QuietUpdate
  /\ simpleGrid.peak > 2 * Plateau
  /\ simpleGrid.quiet >= simpleGrid.peak
  /\ \E c \in SG_Cells : /\ simpleGrid.before[c] = Plateau
                         /\ SG_density(simpleGrid)[c] = Plateau

(***************************************************************************)
(* OceanFluidEngine on the grid: the size of the height field              *)
(***************************************************************************)
\* a height of 1, ten times the default wave strength and four hundred times
\* the largest ambient term
HeightBound == MaxHeight \div 2

\* C23: with no waves queued, repeated update calls keep the height field
\* bounded: whatever the number of frames, |height| stays below a fixed bound
\* at every texel.
C23_HeightStaysBounded ==
  oceanGrid.waves = <<>> =>
    \A c \in GridCells : /\ oceanGrid.height[c] <= HeightBound
                        /\ oceanGrid.height[c] >= -HeightBound

(***************************************************************************)
(* FluidEngine on the grid: what the projection does to the divergence     *)
(***************************************************************************)
Abs(n) == IF n < 0 THEN -n ELSE n

RECURSIVE SumAbs(_, _)
SumAbs(field, n) == IF n = 0 THEN 0 ELSE Abs(field[n]) + SumAbs(field, n - 1)

\* nine times the mean absolute divergence of a velocity field
AbsDivergence(velocity) == SumAbs(FG_divergence(velocity), 9)

\* C24: after an update, the mean absolute divergence of the velocity field
\* is strictly smaller than that of the field the divergence pass sampled,
\* whenever that field was not zero everywhere.
C24_ProjectionReducesDivergence ==
  (/\ fluidGrid.lastCall = "update"
   /\ \E c \in GridCells : fluidGrid.sampled[c] # <<0, 0>>) =>
    AbsDivergence(fluidGrid.velocity) < AbsDivergence(fluidGrid.sampled)

====
